---- MODULE Spec2Model ----
(***************************************************************************)
(* A model of the metagame analyzer (src/src/mtgtop8/analyzer.py) and of   *)
(* the API handlers that call it (src/api/main.py).                        *)
(*                                                                         *)
(* Numbers.  Placement weights are multiples of 0.5, so every score is     *)
(* held in HALVES (0.5 -> 1, 1.0 -> 2, 8.0 -> 16).  Every value the code   *)
(* rounds with round(x, 1) is held in TENTHS (33.3 -> 333).  Python's      *)
(* round(x, 1) rounds the float to the nearest tenth, an exact tie going   *)
(* to the even tenth; the quotients below have denominators far too small  *)
(* for the float to sit on the wrong side of a tie, so Round1 computes the *)
(* same tenth from the exact quotient.                                     *)
(*                                                                         *)
(* Strings.  Python orders strings by code point; TLA+ has no order on     *)
(* strings, so NameOrder lists the names the model uses in that order.     *)
(***************************************************************************)
EXTENDS Integers, Sequences, FiniteSets, TLC

VARIABLES
    decks,      \* the deck list handed to the analyzer / the collection _decks
    ignore_lands_cards_file,  \* ignore_lands_cards.json: its content, or NoFile
    result,     \* what the last call returned
    metadata,   \* the card metadata table of the caller of deck_analysis
    request,    \* the read request that a worker thread is serving
    _player_aliases,  \* the alias table: the set of its <<alias, canonical>> items
    queue,      \* run_scrape: the queue q between the scraper thread and the stream
    scraper,    \* run_scrape: what the scraper thread still does, and its holders
    stream,     \* run_scrape: the locals of event_stream
    events,     \* run_scrape: the events that event_stream has yielded
    fetch       \* _fetch: the attempt, the requests made and the sleeps taken

\* The state of the request handlers apart from the card metadata.
handler_state == <<request, _player_aliases, queue, scraper, stream, events, fetch>>

\* The state that the analyzer functions and the settings handlers neither
\* read nor write.
other_state == <<metadata, handler_state>>

vars == <<decks, ignore_lands_cards_file, result, other_state>>

\* The state above while nothing uses it.
HandlersIdle ==
    /\ request = <<>>
    /\ _player_aliases = <<>>
    /\ queue = <<>>
    /\ scraper = <<>>
    /\ stream = <<>>
    /\ events = <<>>
    /\ fetch = <<>>

OtherStateIdle ==
    /\ metadata = <<>>
    /\ HandlersIdle

\* --------------------------------------------------------------- bounds

\* Longest deck list drawn as input of the distribution builders.
MaxDecks == 5

\* Longest deck list drawn as input of the duplicate detector.
MaxDupDecks == 4

\* Longest deck list drawn as the pool of the similarity search, and the
\* largest limit asked of it.
MaxSimDecks == 3
MaxLimit == 2

\* ------------------------------------------------------ generic helpers

Range(s) == {s[i] : i \in DOMAIN s}

\* The list with the elements of f, every element evaluated once (TLC keeps a
\* function expression unevaluated and would recompute it at every use).
List(f) == f \o <<>>

\* sum(s), the list halved at each step so that a long list nests shallowly.
RECURSIVE SumSeq(_)
SumSeq(s) ==
    IF Len(s) = 0 THEN 0
    ELSE IF Len(s) = 1 THEN s[1]
    ELSE SumSeq(SubSeq(s, 1, Len(s) \div 2))
             + SumSeq(SubSeq(s, Len(s) \div 2 + 1, Len(s)))

\* Python's str comparison on the names the model uses (code point order).
NameOrder ==
    <<"", "(no commander)", "(unknown)", "Arid Mesa", "Atraxa",
      "Atraxa / Tymna", "Badlands", "Barkchannel Pathway", "Bayou",
      "Blackcleave Cliffs", "Blightstep Pathway", "Blood Crypt",
      "Bloodstained Mire", "Blooming Marsh", "Botanical Sanctum",
      "Boulderloft Pathway", "Brainstorm", "Branchloft Pathway",
      "Breeding Pool", "Brightclimb Pathway", "Clearwater Pathway",
      "Command Tower", "Concealed Courtyard", "Copperline Gorge",
      "Cragcrown Pathway", "Darkbore Pathway", "Darkslick Shores",
      "Flooded Strand", "Forest", "Godless Shrine", "Grimclimb Pathway",
      "Hallowed Fountain", "Hengegate Pathway", "Ice Tunnel Pathway",
      "Inspiring Vantage", "Island", "Kraum", "Kraum / Tymna", "Land",
      "Lands", "Lavaglide Pathway", "Lightning Bolt", "Marsh Flats",
      "Mistgate Pathway", "Misty Rainforest", "Mountain",
      "Murkwater Pathway", "Needleverge Pathway", "Overgrown Tomb",
      "Pillarverge Pathway", "Plains", "Plateau", "Polluted Delta",
      "Razorverge Thicket", "Riverglide Pathway", "Sacred Foundry",
      "Savannah", "Scalding Tarn", "Scrubland", "Seachrome Coast",
      "Searstep Pathway", "Shadowgrange Pathway", "Silvergill Pathway",
      "Skyclave Pathway", "Slitherbore Pathway", "Snow-Covered Forest",
      "Snow-Covered Island", "Snow-Covered Mountain", "Snow-Covered Plains",
      "Snow-Covered Swamp", "Sol Ring", "Spirebluff Canal", "Steam Vents",
      "Stomping Ground", "Sundown Pass", "Swamp", "Taiga", "Temple Garden",
      "Tidechannel Pathway", "Timbercrown Pathway", "Tropical Island",
      "Tundra", "Tymna", "UR Aggro", "UR Control", "Underground Sea",
      "Verdant Catacombs", "Vineglimmer Pathway", "Volcanic Island",
      "Wastes", "Watery Grave", "Windswept Heath", "Wooded Foothills">>

NamePosOf == [s \in Range(NameOrder) |-> CHOOSE i \in DOMAIN NameOrder : NameOrder[i] = s]

NamePos(s) == NamePosOf[s]

\* Python's sorted(xs, key=...): ascending by key, stable.  keys[i] is the key
\* of xs[i]; the value is the permutation p with sorted[k] = xs[p[k]].
SortedIdxL(keys) ==
    LET before == List([i \in DOMAIN keys |->
                     Cardinality({j \in DOMAIN keys :
                         keys[j] < keys[i] \/ (keys[j] = keys[i] /\ j < i)})])
    IN  List([k \in DOMAIN keys |-> CHOOSE i \in DOMAIN keys : before[i] = k - 1])
SortedIdx(keys) == SortedIdxL(List(keys))

\* xs[:n] for n >= 0
Prefix(xs, n) == SubSeq(xs, 1, IF n < Len(xs) THEN n ELSE Len(xs))

\* Python's sorted(xs) for a list of strings.
SortedStr(xs) ==
    LET p == SortedIdx([i \in DOMAIN xs |-> NamePos(xs[i])])
    IN  List([k \in DOMAIN xs |-> xs[p[k]]])

\* " / ".join(xs)
RECURSIVE JoinSlash(_)
JoinSlash(xs) ==
    IF Len(xs) = 0 THEN ""
    ELSE IF Len(xs) = 1 THEN xs[1]
    ELSE JoinSlash(SubSeq(xs, 1, Len(xs) - 1)) \o " / " \o xs[Len(xs)]

\* The keys of a dict filled in the order of ks: each distinct key once, in the
\* order of its first occurrence (Python dicts keep insertion order).
RECURSIVE DictKeys(_)
DictKeys(ks) ==
    IF Len(ks) <= 1 THEN ks
    ELSE LET l == DictKeys(SubSeq(ks, 1, Len(ks) \div 2))
             r == DictKeys(SubSeq(ks, Len(ks) \div 2 + 1, Len(ks)))
             seen == Range(l)
         IN  l \o SelectSeq(r, LAMBDA k : k \notin seen)

\* round(num / den, 1) in tenths, for num >= 0 given in tenths: round(x, 1) of
\* x = num / (10 * den).
Round1Trunc(num, den) == num \div den

Round1(num, den) ==
    LET q == num \div den
        r == num % den
    IN  IF 2 * r > den \/ (2 * r = den /\ q % 2 = 1) THEN q + 1 ELSE q

\* ------------------------------------------------------------ the model

None == "None"

\* models.Deck: the fields the analyzer reads.
Deck(id, rank, player, commanders, archetype, mainboard) ==
    [deck_id |-> id, rank |-> rank, player |-> player,
     commanders |-> commanders, archetype |-> archetype,
     mainboard |-> mainboard]

\* RANK_WEIGHTS.get(rank, 1.0), in halves.
_get_weight(rank) ==
    CASE rank = "1" -> 16
      [] rank = "2" -> 12
      [] rank = "3-4" -> 8
      [] rank = "5-8" -> 4
      [] rank = "9-16" -> 2
      [] rank = "17-32" -> 1
      [] OTHER -> 2

\* The weight of a deck when every deck weighs 1.0.
DeckWeightUnweighted(d, placement_weighted) == 2

\* w = _get_weight(d.rank) if placement_weighted else 1.0
DeckWeight(d, placement_weighted) ==
    IF placement_weighted THEN _get_weight(d.rank) ELSE 2

\* The commander names joined in the order the deck lists them.
CommanderKeyUnsorted(d) ==
    IF Len(d.commanders) > 0 THEN JoinSlash(d.commanders)
    ELSE "(no commander)"

\* " / ".join(sorted(d.commanders)) if d.commanders else "(no commander)"
CommanderKey(d) ==
    IF Len(d.commanders) > 0 THEN JoinSlash(SortedStr(d.commanders))
    ELSE "(no commander)"

\* d.archetype or "(unknown)"
ArchetypeKey(d) ==
    IF d.archetype = None \/ d.archetype = "" THEN "(unknown)" ELSE d.archetype

\* The body shared by commander_distribution and archetype_distribution:
\* keys[i] and ws[i] are the key and the weight of the i-th deck.  The rows
\* are <<key, count in tenths, pct in tenths>>, sorted by -score.
ScoreRows(keys0, ws0) ==
    LET keys == List(keys0)
        ws == List(ws0)
        order == DictKeys(keys)
        scores == List([p \in DOMAIN order |->
                     SumSeq([i \in DOMAIN keys |->
                               IF keys[i] = order[p] THEN ws[i] ELSE 0])])
        sum == SumSeq(scores)
        total == IF sum = 0 THEN 1 ELSE sum
        perm == SortedIdx([p \in DOMAIN order |-> -scores[p]])
    IN  List([k \in DOMAIN order |->
           <<order[perm[k]],
             5 * scores[perm[k]],
             Round1(1000 * scores[perm[k]], total)>>])

commander_distribution(ds, placement_weighted) ==
    LET rows == ScoreRows([i \in DOMAIN ds |-> CommanderKey(ds[i])],
                          [i \in DOMAIN ds |-> DeckWeight(ds[i], placement_weighted)])
    IN  [k \in DOMAIN rows |->
           [commander |-> rows[k][1], count |-> rows[k][2], pct |-> rows[k][3]]]

archetype_distribution(ds, placement_weighted) ==
    LET rows == ScoreRows([i \in DOMAIN ds |-> ArchetypeKey(ds[i])],
                          [i \in DOMAIN ds |-> DeckWeight(ds[i], placement_weighted)])
    IN  [k \in DOMAIN rows |->
           [archetype |-> rows[k][1], count |-> rows[k][2], pct |-> rows[k][3]]]

NoFile == [exists |-> FALSE]

NoResult == [op |-> "none"]

\* ------------------------------------------- the distribution builders

\* Decks that differ in what the builders read: commanders (in either order,
\* or none), archetype (or none, or empty), rank, and a mainboard with basic
\* lands, cards of the land-name list, other cards, a repeated entry, or no
\* card at all.
DeckPool ==
    { Deck(1, "1",     "Jeremy Lb",      <<"Kraum", "Tymna">>, "UR Aggro",
           << <<1, "Sol Ring">>, <<2, "Lightning Bolt">>, <<38, "Lands">> >>),
      Deck(2, "2",     "Jeremy Lb",      <<"Kraum">>,          "UR Aggro",
           << <<1, "Brainstorm">>, <<1, "Sol Ring">>, <<2, "Lightning Bolt">>,
              <<10, "Island">>, <<1, "Command Tower">> >>),
      Deck(3, "3-4",   "Thomas Le Goff", <<"Tymna">>,          "UR Control",
           << <<4, "Lightning Bolt">>, <<1, "Sol Ring">>, <<1, "Lightning Bolt">>,
              <<1, "Brainstorm">> >>),
      Deck(4, "3-4",   "Jeremy Lb",      <<"Tymna", "Kraum">>, None,
           << <<1, "Command Tower">>, <<30, "Lands">>, <<5, "Island">> >>),
      Deck(5, "3-4",   "",               <<>>,                 "Grixis",
           <<>>),
      Deck(6, "",      "Thomas Le Goff", <<"Atraxa">>,         "Bant",
           << <<1, "Command Tower">>, <<1, "Sol Ring">> >>),
      Deck(7, "17-32", "Jeremy Lb",      <<>>,                 "",
           << <<20, "Island">> >>) }

\* A deck set: decks of the pool in any order, no deck twice (deck_id is a
\* unique key).
InitDist ==
    /\ \E n \in 0..MaxDecks :
          \E ds \in [1..n -> DeckPool] :
              /\ \A i, j \in 1..n : ds[i] = ds[j] => i = j
              /\ decks = List(ds)
    /\ ignore_lands_cards_file = NoFile
    /\ OtherStateIdle
    /\ result = NoResult

CommanderDistribution(placement_weighted) ==
    /\ result' = [op |-> "commander_distribution",
                  placement_weighted |-> placement_weighted,
                  out |-> commander_distribution(decks, placement_weighted)]
    /\ UNCHANGED <<decks, ignore_lands_cards_file, other_state>>

ArchetypeDistribution(placement_weighted) ==
    /\ result' = [op |-> "archetype_distribution",
                  placement_weighted |-> placement_weighted,
                  out |-> archetype_distribution(decks, placement_weighted)]
    /\ UNCHANGED <<decks, ignore_lands_cards_file, other_state>>

NextDist ==
    \/ \E pw \in BOOLEAN : CommanderDistribution(pw)
    \/ \E pw \in BOOLEAN : ArchetypeDistribution(pw)

SpecDist == InitDist /\ [][NextDist]_vars

\* ---------------------------------------------------------------- C1
\* Distribution percentages and their sum.

IsDistribution == result.op \in {"commander_distribution", "archetype_distribution"}

EntryKey(e) == IF result.op = "commander_distribution" THEN e.commander ELSE e.archetype

DeckKey(d) == IF result.op = "commander_distribution" THEN CommanderKey(d) ELSE ArchetypeKey(d)

PctSum == SumSeq(List([k \in DOMAIN result.out |-> result.out[k].pct]))

Abs(n) == IF n < 0 THEN -n ELSE n

\* The score of a key and the total score, counted from the deck list.
KeyScore(key) ==
    SumSeq(List([i \in DOMAIN decks |->
        IF DeckKey(decks[i]) = key
        THEN (IF result.placement_weighted THEN _get_weight(decks[i].rank) ELSE 2)
        ELSE 0]))

TotalScore ==
    SumSeq(List([i \in DOMAIN decks |->
        IF result.placement_weighted THEN _get_weight(decks[i].rank) ELSE 2]))

\* Each pct is the tenth nearest to 100 * score / total.
PctIsRounded ==
    \A k \in DOMAIN result.out :
        2 * Abs(result.out[k].pct * TotalScore - 1000 * KeyScore(EntryKey(result.out[k])))
            <= TotalScore

\* C1 as stated: for every deck set and both weighting modes the pct values
\* of a distribution sum to 100 within 0.1 when the deck set is non-empty and
\* there are no entries (sum 0) when it is empty; each pct is
\* 100 * score / total rounded to one decimal.
C1_SumWithinOneTenth ==
    IsDistribution =>
        /\ Len(decks) = 0 => (Len(result.out) = 0 /\ PctSum = 0)
        /\ Len(decks) > 0 => (Abs(PctSum - 1000) <= 1 /\ PctIsRounded)

\* C1 amended: each pct is 100 * score / total rounded to one decimal, so the
\* pct values of a non-empty deck set sum to 100 within 0.05 per entry (within
\* 0.1 for up to three entries); an empty deck set gives no entries (sum 0).
C1_SumWithinHalfTenthPerEntry ==
    IsDistribution =>
        /\ Len(decks) = 0 => (Len(result.out) = 0 /\ PctSum = 0)
        /\ Len(decks) > 0 =>
              /\ 2 * Abs(PctSum - 1000) <= Len(result.out)
              /\ Len(result.out) <= 3 => Abs(PctSum - 1000) <= 1
              /\ PctIsRounded

\* A distribution of five entries whose rounded percentages sum to 100.2 or 99.8.
C1_Witness ==
    /\ IsDistribution
    /\ Len(result.out) = 5
    /\ Abs(PctSum - 1000) = 2

\* ------------------------------------------------ the duplicate detector

\* Python's order on (qty, card) tuples, first by qty and then by card, as one
\* integer: qty is the high part, the card's place in the string order the low.
EntrySortKey(e) == e[1] * (Len(NameOrder) + 1) + NamePos(e[2])

\* mainboard_key with the sort left out: the entries in the order of the list.
mainboard_key_unsorted(d) == d.mainboard

\* tuple(sorted((qty, c) for qty, c in d.mainboard))
mainboard_key(d) ==
    LET mb == d.mainboard
        p == SortedIdx([i \in DOMAIN mb |-> EntrySortKey(mb[i])])
    IN  List([k \in DOMAIN mb |-> mb[p[k]]])

\* The dict {ids[0]: ids[1:]} as the list of its items, in the order of the
\* dict: one item per mainboard key shared by several decks, keys in the order
\* in which the deck list first shows them, ids in the order of the deck list.
\* (Deck ids are unique, so no two items collide on their key.)
find_duplicate_decks(ds) ==
    LET keys == List([i \in DOMAIN ds |-> mainboard_key(ds[i])])
        order == DictKeys(keys)
        idx == List([i \in DOMAIN ds |-> i])
        by_key == List([p \in DOMAIN order |->
                     LET at == SelectSeq(idx, LAMBDA i : keys[i] = order[p])
                     IN  List([k \in DOMAIN at |-> ds[at[k]].deck_id])])
        groups == SelectSeq(by_key, LAMBDA ids : Len(ids) > 1)
    IN  List([g \in DOMAIN groups |->
           [primary |-> groups[g][1], duplicates |-> Tail(groups[g])]])

\* Mainboards over two cards: the same entries in two orders, the same names
\* with other quantities, and a name listed twice.
MainboardPool ==
    { << <<1, "Sol Ring">>, <<2, "Lightning Bolt">> >>,
      << <<2, "Lightning Bolt">>, <<1, "Sol Ring">> >>,
      << <<2, "Sol Ring">>, <<1, "Lightning Bolt">> >>,
      << <<1, "Sol Ring">>, <<1, "Sol Ring">>, <<2, "Lightning Bolt">> >> }

\* The orders in which a deck list can hold the ids 1..n.
IdOrders(n) == {f \in [1..n -> 1..n] : \A i, j \in 1..n : f[i] = f[j] => i = j}

\* The deck list with the ids ids[i] and the mainboards mbs[i].
DeckList(ids, mbs) ==
    List([i \in DOMAIN ids |-> Deck(ids[i], "", "", <<>>, None, mbs[i])])

InitDup ==
    /\ \E n \in 0..MaxDupDecks :
          \E ids \in IdOrders(n), mbs \in [1..n -> MainboardPool] :
              decks = DeckList(ids, mbs)
    /\ ignore_lands_cards_file = NoFile
    /\ OtherStateIdle
    /\ result = NoResult

FindDuplicateDecks ==
    /\ result' = [op |-> "find_duplicate_decks", out |-> find_duplicate_decks(decks)]
    /\ UNCHANGED <<decks, ignore_lands_cards_file, other_state>>

NextDup == FindDuplicateDecks

SpecDup == InitDup /\ [][NextDup]_vars

\* ---------------------------------------------------------------- C2

IsDuplicateMap == result.op = "find_duplicate_decks"

\* C2: the key (primary) of every group of decks with identical mainboard
\* signatures is the numerically smallest deck id of the group, whatever the
\* order of the decks in the input list.
C2_PrimaryIsSmallestId ==
    IsDuplicateMap =>
        \A g \in DOMAIN result.out :
            \A k \in DOMAIN result.out[g].duplicates :
                result.out[g].primary < result.out[g].duplicates[k]

\* ---------------------------------------------------------------- C3

\* How often the entry e is listed in the mainboard mb.
EntryCount(mb, e) == Cardinality({i \in DOMAIN mb : mb[i] = e})

\* The two mainboards hold the same multiset of (quantity, card) entries.
SameMainboard(a, b) ==
    \A e \in Range(a) \cup Range(b) : EntryCount(a, e) = EntryCount(b, e)

\* How often the deck id is listed in the map, as a key or inside a value.
IdOccurrences(id) ==
    Cardinality({g \in DOMAIN result.out : result.out[g].primary = id})
    + SumSeq(List([g \in DOMAIN result.out |->
          Cardinality({k \in DOMAIN result.out[g].duplicates :
                         result.out[g].duplicates[k] = id})]))

\* C3: with unique deck ids, a deck id is listed in the duplicate map (as a
\* key or inside a value) exactly when another deck has the same multiset of
\* (quantity, card) mainboard entries, whatever the order of the entries; a
\* listed id is listed once, and a deck with a unique mainboard nowhere.
C3_ListedIffSharedMainboard ==
    IsDuplicateMap =>
        \A i \in DOMAIN decks :
            IdOccurrences(decks[i].deck_id) =
                IF \E j \in DOMAIN decks :
                       j # i /\ SameMainboard(decks[i].mainboard, decks[j].mainboard)
                THEN 1 ELSE 0

\* Two decks listing the same entries in different orders are grouped, and a
\* third deck with a mainboard of its own is left out.
C3_Witness ==
    /\ IsDuplicateMap
    /\ Len(result.out) = 1
    /\ \E i, j, k \in DOMAIN decks :
          /\ decks[i].deck_id = result.out[1].primary
          /\ decks[j].deck_id \in Range(result.out[1].duplicates)
          /\ decks[i].mainboard # decks[j].mainboard
          /\ IdOccurrences(decks[k].deck_id) = 0

\* -------------------------------------------------- the similarity search

\* set(c for _, c in mainboard)
CardNames(mb) == {mb[i][2] : i \in DOMAIN mb}

\* The overlap measured against the reference deck alone.
SimilarityOverReference(deck_cards, other_cards) ==
    [num |-> Cardinality(deck_cards \cap other_cards), den |-> Cardinality(deck_cards)]

\* sim = intersection / union, as the exact quotient num / den (union is never
\* 0 here: deck_cards is not empty).  Two such floats are equal, or ordered,
\* exactly as the quotients are.
Similarity(deck_cards, other_cards) ==
    [num |-> Cardinality(deck_cards \cap other_cards),
     den |-> Cardinality(deck_cards \cup other_cards)]

\* A candidate filter that forgets to leave the reference deck out.
IsCandidateOrReference(deck, d) == CardNames(d.mainboard) # {}

\* The two "continue" of the loop: the reference deck (by id) and the decks
\* with an empty mainboard are skipped.
IsCandidate(deck, d) ==
    /\ d.deck_id # deck.deck_id
    /\ CardNames(d.mainboard) # {}

\* -x[0] of one result is smaller than -x[0] of another.
SimKeyLess(a, b) == a.sim.num * b.sim.den > b.sim.num * a.sim.den

\* results.sort(key=lambda x: -x[0]): ascending by -sim, stable.  The value is
\* the permutation p with sorted[k] = results[p[k]].
SortedIdxBySim(xs) ==
    List([k \in DOMAIN xs |->
        CHOOSE i \in DOMAIN xs :
            Cardinality({j \in DOMAIN xs :
                SimKeyLess(xs[j], xs[i])
                    \/ (~SimKeyLess(xs[i], xs[j]) /\ j < i)}) = k - 1])

similar_decks(deck, all_decks, limit) ==
    LET deck_cards == CardNames(deck.mainboard)
        cands == SelectSeq(all_decks, LAMBDA d : IsCandidate(deck, d))
        results == List([i \in DOMAIN cands |->
                      [sim |-> Similarity(deck_cards, CardNames(cands[i].mainboard)),
                       d |-> cands[i]]])
        p == SortedIdxBySim(results)
        sorted == List([k \in DOMAIN results |-> results[p[k]]])
        top == Prefix(sorted, limit)
    IN  IF deck_cards = {} THEN <<>>
        ELSE List([k \in DOMAIN top |->
                [deck_id |-> top[k].d.deck_id,
                 player |-> top[k].d.player,
                 rank |-> top[k].d.rank,
                 similarity |-> Round1(1000 * top[k].sim.num, top[k].sim.den)]])

\* Mainboards over four cards: {X,Y,Z} and {Y,Z,W} of the scenario, the names
\* of the first with quantities and a repeated entry, a single card the first
\* does not hold, and no card at all.
SimMainboardPool ==
    { <<>>,
      << <<1, "Sol Ring">>, <<1, "Lightning Bolt">>, <<1, "Command Tower">> >>,
      << <<1, "Lightning Bolt">>, <<1, "Command Tower">>, <<1, "Lands">> >>,
      << <<2, "Sol Ring">>, <<1, "Command Tower">>, <<4, "Lightning Bolt">>, <<1, "Sol Ring">> >>,
      << <<3, "Lands">> >> }

IdsInOrder(n) == List([i \in 1..n |-> i])

InitSim ==
    /\ \E n \in 0..MaxSimDecks : \E mbs \in [1..n -> SimMainboardPool] :
          decks = DeckList(IdsInOrder(n), mbs)
    /\ ignore_lands_cards_file = NoFile
    /\ OtherStateIdle
    /\ result = NoResult

\* One call of similar_decks with a deck of the list as the reference (as
\* get_similar_decks calls it).  The call before it is kept in prev_ref and
\* prev_out, for the properties that relate two calls.
SimilarDecks(r, limit) ==
    /\ r \in DOMAIN decks
    /\ result' = [op |-> "similar_decks",
                  ref |-> decks[r].deck_id,
                  limit |-> limit,
                  out |-> similar_decks(decks[r], decks, limit),
                  prev_ref |-> IF result.op = "similar_decks" THEN result.ref ELSE 0,
                  prev_out |-> IF result.op = "similar_decks" THEN result.out ELSE <<>>]
    /\ UNCHANGED <<decks, ignore_lands_cards_file, other_state>>

NextSim == \E r \in 1..MaxSimDecks, limit \in 0..MaxLimit : SimilarDecks(r, limit)

SpecSim == InitSim /\ [][NextSim]_vars

\* ---------------------------------------------------------------- C4

IsSimilar == result.op = "similar_decks"

DeckWithId(id) == decks[CHOOSE i \in DOMAIN decks : decks[i].deck_id = id]

\* 100 * |names(A) /\ names(B)| / |names(A) \/ names(B)|, to the nearest tenth.
IsJaccardPct(pct, A, B) ==
    LET a == {A.mainboard[i][2] : i \in DOMAIN A.mainboard}
        b == {B.mainboard[i][2] : i \in DOMAIN B.mainboard}
        inter == Cardinality({c \in a : c \in b})
        union == Cardinality(a) + Cardinality(b) - inter
    IN  2 * Abs(pct * union - 1000 * inter) <= union

\* C4: the similarity reported for B with A as the reference equals the one
\* reported for A with B as the reference, and both are
\* 100 * |names(A) /\ names(B)| / |names(A) \/ names(B)| to one decimal.
C4_SimilaritySymmetricJaccard ==
    IsSimilar =>
        /\ \A k \in DOMAIN result.out :
              IsJaccardPct(result.out[k].similarity,
                           DeckWithId(result.ref), DeckWithId(result.out[k].deck_id))
        /\ \A k \in DOMAIN result.out, j \in DOMAIN result.prev_out :
              (result.out[k].deck_id = result.prev_ref
                  /\ result.prev_out[j].deck_id = result.ref)
              => result.out[k].similarity = result.prev_out[j].similarity

\* Two calls with the references swapped, each listing the other deck, with a
\* similarity of 50.0 ({X,Y,Z} against {Y,Z,W}).
C4_Witness ==
    /\ IsSimilar
    /\ \E k \in DOMAIN result.out, j \in DOMAIN result.prev_out :
          /\ result.out[k].deck_id = result.prev_ref
          /\ result.prev_out[j].deck_id = result.ref
          /\ result.ref # result.prev_ref
          /\ result.out[k].similarity = 500

\* ---------------------------------------------------------------- C5

\* The pool decks other than the reference that have a card in the mainboard.
EligibleIds ==
    {decks[i].deck_id : i \in {j \in DOMAIN decks :
        decks[j].deck_id # result.ref /\ Len(decks[j].mainboard) > 0}}

ListedIds == {result.out[k].deck_id : k \in DOMAIN result.out}

\* The similarity of the pool deck id to the reference is above pct tenths.
JaccardAbove(id, pct) ==
    LET a == CardNames(DeckWithId(result.ref).mainboard)
        b == CardNames(DeckWithId(id).mainboard)
    IN  1000 * Cardinality(a \cap b) > (pct + 1) * Cardinality(a \cup b)

Min(a, b) == IF a < b THEN a ELSE b

\* C5: for a reference with a non-empty mainboard, similar_decks(ref, pool,
\* limit=K) returns min(K, n) entries, n the number of pool decks with another
\* id and a non-empty mainboard; the reference and the decks with an empty
\* mainboard are never listed, candidates of similarity 0 are listed when they
\* fit, the entries are in non-increasing similarity, and no candidate left
\* out has a strictly higher similarity than a listed one.
C5_TopKOfEligible ==
    (IsSimilar /\ Len(DeckWithId(result.ref).mainboard) > 0) =>
        /\ Len(result.out) = Min(result.limit, Cardinality(EligibleIds))
        /\ Cardinality(ListedIds) = Len(result.out)
        /\ ListedIds \subseteq EligibleIds
        /\ \A k \in DOMAIN result.out :
              k > 1 => result.out[k - 1].similarity >= result.out[k].similarity
        /\ \A id \in EligibleIds \ ListedIds :
              \A k \in DOMAIN result.out :
                  ~JaccardAbove(id, result.out[k].similarity)

\* A call whose limit leaves out a candidate less similar than the listed one.
C5_Witness ==
    /\ IsSimilar
    /\ Len(DeckWithId(result.ref).mainboard) > 0
    /\ result.limit > 0
    /\ Len(result.out) = result.limit
    /\ \E id \in EligibleIds \ ListedIds, k \in DOMAIN result.out :
          /\ result.out[k].similarity > 0
          /\ ~JaccardAbove(id, 0)

\* ------------------------------------------- top cards and card synergy

\* Longest deck list drawn as input of the report builders, and the largest
\* min_decks and top_n asked of card_synergy.
MaxReportDecks == 3
MaxMinDecks == 2
MaxTopN == 1

BASIC_LANDS ==
    {"Plains", "Island", "Swamp", "Mountain", "Forest",
     "Snow-Covered Plains", "Snow-Covered Island", "Snow-Covered Swamp",
     "Snow-Covered Mountain", "Snow-Covered Forest", "Wastes"}

\* The land-name list: exact full names ("Lands" is the placeholder row of a
\* scraped list).
LAND_KEYWORDS ==
    {"Land", "Lands", "Command Tower",
     "Tundra", "Underground Sea", "Badlands", "Taiga", "Savannah",
     "Scrubland", "Volcanic Island", "Bayou", "Plateau", "Tropical Island",
     "Arid Mesa", "Marsh Flats", "Misty Rainforest", "Scalding Tarn", "Verdant Catacombs",
     "Flooded Strand", "Polluted Delta", "Windswept Heath", "Wooded Foothills", "Bloodstained Mire",
     "Hallowed Fountain", "Temple Garden", "Sacred Foundry", "Stomping Ground", "Breeding Pool",
     "Godless Shrine", "Steam Vents", "Overgrown Tomb", "Blood Crypt", "Watery Grave",
     "Barkchannel Pathway", "Blightstep Pathway", "Boulderloft Pathway", "Branchloft Pathway",
     "Brightclimb Pathway", "Clearwater Pathway", "Cragcrown Pathway", "Darkbore Pathway",
     "Grimclimb Pathway", "Hengegate Pathway", "Ice Tunnel Pathway", "Lavaglide Pathway",
     "Mistgate Pathway", "Murkwater Pathway", "Needleverge Pathway", "Pillarverge Pathway",
     "Riverglide Pathway", "Searstep Pathway", "Shadowgrange Pathway", "Silvergill Pathway",
     "Skyclave Pathway", "Slitherbore Pathway", "Sundown Pass", "Tidechannel Pathway",
     "Timbercrown Pathway", "Vineglimmer Pathway",
     "Razorverge Thicket", "Copperline Gorge", "Blackcleave Cliffs", "Seachrome Coast",
     "Darkslick Shores", "Concealed Courtyard", "Inspiring Vantage", "Spirebluff Canal",
     "Botanical Sanctum", "Blooming Marsh"}

_is_land_card_never(name) == FALSE

_is_land_card(name) == name \in BASIC_LANDS \/ name \in LAND_KEYWORDS

\* The test both builders apply to a mainboard card before counting it.
IsSkipped(card, ignore_lands) ==
    card \in BASIC_LANDS \/ (ignore_lands /\ _is_land_card(card))

RECURSIVE ConcatAll(_)
ConcatAll(ss) ==
    IF Len(ss) = 0 THEN <<>>
    ELSE ConcatAll(SubSeq(ss, 1, Len(ss) - 1)) \o ss[Len(ss)]

\* sorted(S) for a set of strings.
SortedSet(S) ==
    List([k \in 1..Cardinality(S) |->
        CHOOSE c \in S : Cardinality({x \in S : NamePos(x) < NamePos(c)}) = k - 1])

\* The rows <<deck, qty, card>> that top_cards_main counts, in loop order.
CountedRows(ds, ignore_lands) ==
    ConcatAll(List([i \in DOMAIN ds |->
        LET mb == ds[i].mainboard
        IN  SelectSeq(List([j \in DOMAIN mb |-> <<i, mb[j][1], mb[j][2]>>]),
                      LAMBDA r : ~IsSkipped(r[3], ignore_lands))]))

\* top_cards_main: total_copies in tenths (a weight is a multiple of 0.5, so
\* round(copies, 1) is exact), play_rate_pct in tenths.
top_cards_main(ds, placement_weighted, ignore_lands) ==
    LET rows   == CountedRows(ds, ignore_lands)
        cards  == DictKeys(List([k \in DOMAIN rows |-> rows[k][3]]))
        copies == List([c \in DOMAIN cards |->
                      SumSeq(List([k \in DOMAIN rows |->
                          IF rows[k][3] = cards[c]
                          THEN rows[k][2] * DeckWeight(ds[rows[k][1]], placement_weighted)
                          ELSE 0]))])
        ids    == List([c \in DOMAIN cards |->
                      {ds[rows[k][1]].deck_id :
                          k \in {k \in DOMAIN rows : rows[k][3] = cards[c]}}])
        p      == SortedIdx([c \in DOMAIN cards |-> 0 - copies[c]])
    IN  Prefix(List([k \in DOMAIN cards |->
            [card |-> cards[p[k]],
             decks |-> Cardinality(ids[p[k]]),
             play_rate_pct |-> Round1(1000 * Cardinality(ids[p[k]]), Len(ds)),
             total_copies |-> 5 * copies[p[k]]]]), 100)

\* The cards of one deck that card_synergy pairs up.
SynergyCards(d, ignore_lands) ==
    {d.mainboard[j][2] : j \in {j \in DOMAIN d.mainboard :
                                   ~IsSkipped(d.mainboard[j][2], ignore_lands)}}

\* cards_list = sorted(cards): each card of the deck once.
CardsListRepeated(d, ignore_lands) ==
    SortedStr(SelectSeq(List([j \in DOMAIN d.mainboard |-> d.mainboard[j][2]]),
                        LAMBDA c : ~IsSkipped(c, ignore_lands)))

CardsList(d, ignore_lands) == SortedSet(SynergyCards(d, ignore_lands))

\* The pairs (cards_list[i], cards_list[j]), i < j, in loop order.
RECURSIVE PairsFrom(_, _)
PairsFrom(cards_list, i) ==
    IF i > Len(cards_list) THEN <<>>
    ELSE List([k \in 1..(Len(cards_list) - i) |-> <<cards_list[i], cards_list[i + k]>>])
         \o PairsFrom(cards_list, i + 1)

\* pair_counts[(a, b)] += 1, every key of the dict in insertion order.
PairRows(ds, ignore_lands) ==
    ConcatAll(List([i \in DOMAIN ds |->
        PairsFrom(CardsList(ds[i], ignore_lands), 1)]))

\* The filter "if count >= min_decks" of the returned list.
QualifiesAlways(count, min_decks) == TRUE

Qualifies(count, min_decks) == count >= min_decks

card_synergy(ds, min_decks, top_n, ignore_lands) ==
    LET rows   == PairRows(ds, ignore_lands)
        pairs  == DictKeys(rows)
        count  == List([c \in DOMAIN pairs |->
                      Cardinality({k \in DOMAIN rows : rows[k] = pairs[c]})])
        p      == SortedIdx([c \in DOMAIN pairs |-> 0 - count[c]])
        sorted == List([k \in DOMAIN pairs |->
                      [card_a |-> pairs[p[k]][1], card_b |-> pairs[p[k]][2],
                       decks |-> count[p[k]]]])
    IN  Prefix(SelectSeq(sorted, LAMBDA e : Qualifies(e.decks, min_decks)), top_n)

\* deck_diversity: a deck without commanders adds nothing to the commander set.
\* deck_diversity with the commander key of every deck counted.
deck_diversityOfAllKeys(ds) ==
    [total_decks       |-> Len(ds),
     unique_commanders |-> Cardinality({CommanderKey(ds[i]) : i \in DOMAIN ds}),
     unique_archetypes |-> Cardinality({ArchetypeKey(ds[i]) : i \in DOMAIN ds})]

deck_diversity(ds) ==
    [total_decks       |-> Len(ds),
     unique_commanders |-> Cardinality({CommanderKey(ds[i]) :
                               i \in {i \in DOMAIN ds : Len(ds[i].commanders) > 0}}),
     unique_archetypes |-> Cardinality({ArchetypeKey(ds[i]) : i \in DOMAIN ds})]

\* The condition under which analyze computes the pair list.
ComputesSynergyAboveThree(ds, include_card_synergy) ==
    include_card_synergy /\ Len(ds) > 3

ComputesSynergy(ds, include_card_synergy) ==
    include_card_synergy /\ Len(ds) >= 3

\* analyze
analyze(ds, placement_weighted, ignore_lands, include_card_synergy) ==
    [summary                |-> deck_diversity(ds),
     commander_distribution |-> commander_distribution(ds, placement_weighted),
     archetype_distribution |-> archetype_distribution(ds, placement_weighted),
     top_cards_main         |-> top_cards_main(ds, placement_weighted, ignore_lands),
     placement_weighted     |-> placement_weighted,
     ignore_lands           |-> ignore_lands,
     card_synergy           |-> IF ComputesSynergy(ds, include_card_synergy)
                                THEN card_synergy(ds, 2, 30, ignore_lands)
                                ELSE <<>>]

InitReport ==
    /\ \E n \in 0..MaxReportDecks :
           \E ds \in [1..n -> DeckPool] :
               /\ \A i, j \in 1..n : ds[i] = ds[j] => i = j
               /\ decks = List(ds)
    /\ ignore_lands_cards_file = NoFile
    /\ OtherStateIdle
    /\ result = NoResult

TopCardsMain(placement_weighted, ignore_lands) ==
    /\ result' = [op |-> "top_cards_main",
                  placement_weighted |-> placement_weighted,
                  ignore_lands |-> ignore_lands,
                  out |-> top_cards_main(decks, placement_weighted, ignore_lands)]
    /\ UNCHANGED <<decks, ignore_lands_cards_file, other_state>>

CardSynergy(min_decks, top_n, ignore_lands) ==
    /\ result' = [op |-> "card_synergy",
                  min_decks |-> min_decks, top_n |-> top_n,
                  ignore_lands |-> ignore_lands,
                  out |-> card_synergy(decks, min_decks, top_n, ignore_lands)]
    /\ UNCHANGED <<decks, ignore_lands_cards_file, other_state>>

Analyze(placement_weighted, ignore_lands, include_card_synergy) ==
    /\ result' = [op |-> "analyze",
                  include_card_synergy |-> include_card_synergy,
                  out |-> analyze(decks, placement_weighted, ignore_lands,
                                  include_card_synergy)]
    /\ UNCHANGED <<decks, ignore_lands_cards_file, other_state>>

NextTop == \E pw, il \in BOOLEAN : TopCardsMain(pw, il)

SpecTop == InitReport /\ [][NextTop]_vars

NextSyn ==
    \E m \in 1..MaxMinDecks, t \in 0..MaxTopN, il \in BOOLEAN : CardSynergy(m, t, il)

SpecSyn == InitReport /\ [][NextSyn]_vars

NextAnalyze == \E pw, il, inc \in BOOLEAN : Analyze(pw, il, inc)

SpecAnalyze == InitReport /\ [][NextAnalyze]_vars

\* ---- card_synergy: what a returned pair list must be

HasCard(d, card) == \E j \in DOMAIN d.mainboard : d.mainboard[j][2] = card

DecksWith(card) == {i \in DOMAIN decks : HasCard(decks[i], card)}

DecksWithBoth(a, b) == DecksWith(a) \cap DecksWith(b)

ListsTwice(d, card) ==
    \E j, k \in DOMAIN d.mainboard :
        j # k /\ d.mainboard[j][2] = card /\ d.mainboard[k][2] = card

IsSynergy == result.op = "card_synergy"

\* C6: the decks count of every pair returned by card_synergy is the number of
\* decks whose mainboard holds both cards, a deck counting once however many
\* entries list a card, and so it is at most the number of decks holding
\* either card.
C6_CountIsDecksWithBoth ==
    IsSynergy =>
        \A k \in DOMAIN result.out :
            LET e == result.out[k]
            IN  /\ e.decks = Cardinality(DecksWithBoth(e.card_a, e.card_b))
                /\ e.decks <= Cardinality(DecksWith(e.card_a))
                /\ e.decks <= Cardinality(DecksWith(e.card_b))

\* A returned pair held by two decks or more, one of them listing a card of the
\* pair in two entries, while one card of the pair is in more decks than the
\* pair is.
C6_Witness ==
    /\ IsSynergy
    /\ \E k \in DOMAIN result.out :
           LET e == result.out[k]
           IN  /\ e.decks >= 2
               /\ e.decks < Cardinality(DecksWith(e.card_b))
               /\ \E i \in DecksWithBoth(e.card_a, e.card_b) :
                      ListsTwice(decks[i], e.card_a)

\* The cards that occur in some mainboard.
AllCards == UNION {{decks[i].mainboard[j][2] : j \in DOMAIN decks[i].mainboard} : i \in DOMAIN decks}

\* The unordered pairs of distinct cards that may be returned under the
\* option, with the number of decks holding both.
Pairable(ignore_lands) ==
    {c \in AllCards : c \notin BASIC_LANDS /\ (ignore_lands => c \notin LAND_KEYWORDS)}

QualifyingPairs(min_decks, ignore_lands) ==
    {pr \in SUBSET Pairable(ignore_lands) :
        /\ Cardinality(pr) = 2
        /\ \E a, b \in pr : a # b /\ Cardinality(DecksWithBoth(a, b)) >= min_decks}

PairCount(pr) == Cardinality({i \in DOMAIN decks : \A c \in pr : HasCard(decks[i], c)})

EntryPair(e) == {e.card_a, e.card_b}

IsTopPairs(out, min_decks, top_n, ignore_lands) ==
    LET q == QualifyingPairs(min_decks, ignore_lands)
    IN  /\ Len(out) <= top_n
        /\ Len(out) = Min(top_n, Cardinality(q))
        /\ \A k \in DOMAIN out :
               /\ out[k].decks >= min_decks
               /\ out[k].card_a # out[k].card_b
               /\ EntryPair(out[k]) \in q
               /\ EntryPair(out[k]) \cap BASIC_LANDS = {}
               /\ ignore_lands => EntryPair(out[k]) \cap LAND_KEYWORDS = {}
        /\ \A k \in 1..(Len(out) - 1) : out[k].decks >= out[k + 1].decks
        /\ \A j, k \in DOMAIN out : EntryPair(out[j]) = EntryPair(out[k]) => j = k
        /\ \A pr \in q :
               (\A k \in DOMAIN out : EntryPair(out[k]) # pr)
                   => \A k \in DOMAIN out : PairCount(pr) <= out[k].decks

IsAnalyze == result.op = "analyze"

\* C8 as stated: the card_synergy field is empty below three decks and the
\* top-30 pairs held by two decks or more from three decks on.
C8_SynergyFromThreeDecks ==
    IsAnalyze =>
        /\ "card_synergy" \in DOMAIN result.out
        /\ Len(decks) < 3 => result.out.card_synergy = <<>>
        /\ Len(decks) >= 3 =>
               IsTopPairs(result.out.card_synergy, 2, 30, result.out.ignore_lands)

\* C8, amended: the card_synergy field is in every report; it is empty when
\* the deck set has fewer than three decks or include_card_synergy is false,
\* and otherwise it is the top-30 pairs held by two decks or more, under the
\* report's ignore_lands option.
C8_SynergyFromThreeDecksWhenIncluded ==
    IsAnalyze =>
        /\ "card_synergy" \in DOMAIN result.out
        /\ (Len(decks) < 3 \/ ~result.include_card_synergy)
               => result.out.card_synergy = <<>>
        /\ (Len(decks) >= 3 /\ result.include_card_synergy)
               => IsTopPairs(result.out.card_synergy, 2, 30, result.out.ignore_lands)

\* A report over three decks with pairs included: the field lists a pair.
C8_Witness ==
    /\ IsAnalyze
    /\ Len(decks) = 3
    /\ result.include_card_synergy
    /\ Len(result.out.card_synergy) > 0

\* ---- top_cards_main: which cards are ranked

IsTopCards == result.op = "top_cards_main"

RankedCards == {result.out[k].card : k \in DOMAIN result.out}

\* C9: top_cards_main never returns a basic land; without ignore_lands every
\* other card of some mainboard is ranked (the decks of the model hold fewer
\* than a hundred names, so the cut at 100 removes none); with ignore_lands no
\* card of the land-name list is returned and every card that is neither a
\* basic land nor on the list still is.
C9_BasicsNeverLandListOnRequest ==
    IsTopCards =>
        /\ RankedCards \cap BASIC_LANDS = {}
        /\ ~result.ignore_lands => RankedCards = AllCards \ BASIC_LANDS
        /\ result.ignore_lands =>
               /\ RankedCards \cap LAND_KEYWORDS = {}
               /\ RankedCards = (AllCards \ BASIC_LANDS) \ LAND_KEYWORDS

\* ignore_lands set over decks that hold "Lands", a basic land and
\* "Lightning Bolt": the last one is ranked.
C9_Witness ==
    /\ IsTopCards
    /\ result.ignore_lands
    /\ "Lands" \in AllCards
    /\ "Island" \in AllCards
    /\ "Lightning Bolt" \in RankedCards

\* ----------------------------------- the API: settings and the report

\* Most decks in the collection _decks, and longest card list sent to the
\* settings endpoint.
MaxApiDecks == 1
MaxCards == 2

\* The names a request body may carry, and str.strip() on them.
RawCardNames == {"Lands", " Sol Ring ", " "}

Strip(s) ==
    CASE s = " Sol Ring " -> "Sol Ring"
      [] s = " Jeremy Lb " -> "Jeremy Lb"
      [] s = " " -> ""
      [] OTHER -> s

\* The list the settings file falls back on.  analyzer.py defines no
\* DEFAULT_IGNORE_LANDS_SET; the list of nonbasic land names it does define
\* stands for it.
DEFAULT_IGNORE_LANDS_SET == LAND_KEYWORDS

\* sorted(set(c.strip() for c in cards if c.strip()))
CleanCards(cards) ==
    SortedSet({Strip(cards[i]) : i \in {i \in DOMAIN cards : Strip(cards[i]) # ""}})

\* sorted(DEFAULT_IGNORE_LANDS_SET)
SortedDefault == SortedSet(DEFAULT_IGNORE_LANDS_SET)

\* _get_ignore_lands_cards: the list of the file, or the default list.
_get_ignore_lands_cards(file) ==
    IF file.exists THEN CleanCards(file.cards)
    ELSE SortedDefault

\* Deck.from_dict on a stored deck: the fields the analyzer reads.
from_dict(data) ==
    Deck(data.deck_id, data.rank, data.player, data.commanders,
         data.archetype,
         List([j \in DOMAIN data.mainboard |->
                  <<data.mainboard[j][1], data.mainboard[j][2]>>]))

\* The parameters analyze declares.
analyze_parameters ==
    {"decks", "placement_weighted", "ignore_lands", "include_card_synergy"}

\* analyze(decks, **kwargs) as Python binds it: a keyword that analyze does not
\* declare raises TypeError before the body runs, and the server answers 500.
CallAnalyze(ds, kwargs) ==
    IF DOMAIN kwargs \subseteq analyze_parameters
    THEN [status |-> 200,
          body |-> analyze(ds, kwargs.placement_weighted, kwargs.ignore_lands, TRUE)]
    ELSE [status |-> 500, body |-> [detail |-> "Internal Server Error"]]

\* get_metagame with no date and no event filter.
get_metagame(stored, file, placement_weighted, ignore_lands) ==
    IF Len(stored) = 0
    THEN [status |-> 200,
          body |-> [summary |-> [total_decks |-> 0, unique_commanders |-> 0,
                                 unique_archetypes |-> 0],
                    commander_distribution |-> <<>>,
                    archetype_distribution |-> <<>>,
                    top_cards_main |-> <<>>,
                    placement_weighted |-> placement_weighted,
                    ignore_lands |-> ignore_lands]]
    ELSE LET ds == List([i \in DOMAIN stored |-> from_dict(stored[i])])
             ignore_lands_cards ==
                 IF ignore_lands THEN Range(_get_ignore_lands_cards(file)) ELSE None
         IN  CallAnalyze(ds, [placement_weighted |-> placement_weighted,
                              ignore_lands |-> ignore_lands,
                              ignore_lands_cards |-> ignore_lands_cards])

CardLists == UNION {[1..n -> RawCardNames] : n \in 0..MaxCards}

InitApi ==
    /\ \E n \in 0..MaxApiDecks :
           \E ds \in [1..n -> DeckPool] :
               /\ \A i, j \in 1..n : ds[i] = ds[j] => i = j
               /\ decks = List(ds)
    /\ ignore_lands_cards_file = NoFile
    /\ OtherStateIdle
    /\ result = NoResult

\* PUT /api/settings/ignore-lands-cards
PutIgnoreLandsCards(admin, cards) ==
    IF ~admin
    THEN /\ result' = [op |-> "put_ignore_lands_cards", status |-> 401]
         /\ UNCHANGED <<decks, ignore_lands_cards_file, other_state>>
    ELSE /\ ignore_lands_cards_file' = [exists |-> TRUE, cards |-> CleanCards(cards)]
         /\ result' = [op |-> "put_ignore_lands_cards", status |-> 200,
                       cards |-> _get_ignore_lands_cards(ignore_lands_cards_file')]
         /\ UNCHANGED <<decks, other_state>>

\* GET /api/settings/ignore-lands-cards
GetIgnoreLandsCards(admin) ==
    /\ result' = IF ~admin
                 THEN [op |-> "get_ignore_lands_cards", status |-> 401]
                 ELSE [op |-> "get_ignore_lands_cards", status |-> 200,
                       cards |-> _get_ignore_lands_cards(ignore_lands_cards_file)]
    /\ UNCHANGED <<decks, ignore_lands_cards_file, other_state>>

\* GET /api/metagame
GetMetagame(placement_weighted, ignore_lands) ==
    /\ result' = [op |-> "get_metagame", ignore_lands |-> ignore_lands,
                  response |-> get_metagame(decks, ignore_lands_cards_file,
                                            placement_weighted, ignore_lands)]
    /\ UNCHANGED <<decks, ignore_lands_cards_file, other_state>>

NextApi ==
    \/ \E admin \in BOOLEAN, cards \in CardLists : PutIgnoreLandsCards(admin, cards)
    \/ \E admin \in BOOLEAN : GetIgnoreLandsCards(admin)
    \/ \E pw, il \in BOOLEAN : GetMetagame(pw, il)

SpecApi == InitApi /\ [][NextApi]_vars

\* The list in force: the configured one, or the default one when none was
\* ever configured.
ConfiguredList ==
    IF ~ignore_lands_cards_file.exists THEN DEFAULT_IGNORE_LANDS_SET
    ELSE Range(ignore_lands_cards_file.cards)

\* C10: a report asked with ignore_lands ranks exactly the mainboard cards
\* that are neither basic lands nor on the list configured through the
\* settings endpoint (the default list when none was configured).
C10_ReportUsesConfiguredList ==
    (result.op = "get_metagame" /\ result.ignore_lands) =>
        /\ result.response.status = 200
        /\ {result.response.body.top_cards_main[k].card :
                k \in DOMAIN result.response.body.top_cards_main}
               = (AllCards \ BASIC_LANDS) \ ConfiguredList

\* ------------------------------------- top_cards_main: the cut at 100

\* A deck of 101 different cards, none of them a land, in one to four copies.
BigDeck ==
    Deck(8, "5-8", "Thomas Le Goff", <<"Atraxa">>, "Bant",
         List([i \in 1..101 |-> <<(i % 4) + 1, "Card " \o ToString(i)>>]))

\* The deck lists of InitReport, and the lists of at most one deck of the pool
\* with BigDeck before or after it.
InitTopCut ==
    /\ \E n \in 0..MaxReportDecks :
           \E ds \in [1..n -> DeckPool] :
               /\ \A i, j \in 1..n : ds[i] = ds[j] => i = j
               /\ \E big \in {"none", "first", "last"} :
                      /\ big # "none" => n <= 1
                      /\ decks = CASE big = "first" -> <<BigDeck>> \o List(ds)
                                   [] big = "last"  -> List(ds) \o <<BigDeck>>
                                   [] OTHER         -> List(ds)
    /\ ignore_lands_cards_file = NoFile
    /\ OtherStateIdle
    /\ result = NoResult

SpecTopCut == InitTopCut /\ [][NextTop]_vars

\* The cards that may be ranked under the option of the call.
Rankable ==
    {c \in AllCards :
        c \notin BASIC_LANDS /\ (result.ignore_lands => c \notin LAND_KEYWORDS)}

\* The copies of a card over all decks and all entries that bear its name, each
\* entry weighted by its deck, in tenths.
CopiesOf(card) ==
    5 * SumSeq(List([i \in DOMAIN decks |->
            SumSeq(List([j \in DOMAIN decks[i].mainboard |->
                IF decks[i].mainboard[j][2] = card
                THEN decks[i].mainboard[j][1]
                         * (IF result.placement_weighted
                            THEN _get_weight(decks[i].rank) ELSE 2)
                ELSE 0]))]))

\* What C11 says of a returned list but for play_rate_pct: at most 100
\* entries (all the rankable cards when they are fewer), one per card, in
\* non-increasing total_copies, no card left out with more copies than a
\* listed one, total_copies and decks counted from the deck list.
IsTopCardList ==
    LET out == result.out
    IN  /\ Len(out) <= 100
        /\ Len(out) = Min(100, Cardinality(Rankable))
        /\ \A k \in DOMAIN out :
               /\ out[k].card \in Rankable
               /\ out[k].total_copies = CopiesOf(out[k].card)
               /\ out[k].decks = Cardinality(DecksWith(out[k].card))
        /\ \A j, k \in DOMAIN out : out[j].card = out[k].card => j = k
        /\ \A k \in 1..(Len(out) - 1) : out[k].total_copies >= out[k + 1].total_copies
        /\ Len(out) > 0 =>
               \A c \in Rankable \ RankedCards : CopiesOf(c) <= out[Len(out)].total_copies

\* C11 as stated: the list is the top 100 by total_copies and play_rate_pct is
\* 100 * decks / deck count, never above 100.
C11_TopHundredExactRate ==
    IsTopCards =>
        /\ IsTopCardList
        /\ \A k \in DOMAIN result.out :
               /\ result.out[k].play_rate_pct * Len(decks) = 1000 * result.out[k].decks
               /\ result.out[k].play_rate_pct <= 1000

\* C11, amended: the list is the top 100 by total_copies and play_rate_pct is
\* 100 * decks / deck count rounded to one decimal, never above 100.
C11_TopHundredRoundedRate ==
    IsTopCards =>
        /\ IsTopCardList
        /\ \A k \in DOMAIN result.out :
               /\ 2 * Abs(result.out[k].play_rate_pct * Len(decks)
                              - 1000 * result.out[k].decks) <= Len(decks)
               /\ result.out[k].play_rate_pct <= 1000

\* A weighted ranking over more than 100 rankable cards: 100 are listed, the
\* first of them a card that one deck lists in two entries.
C11_Witness ==
    /\ IsTopCards
    /\ result.placement_weighted
    /\ Cardinality(Rankable) > 100
    /\ Len(result.out) = 100
    /\ \E i \in DOMAIN decks : ListsTwice(decks[i], result.out[1].card)

\* ------------------------------------------------ the player leaderboard

\* Longest deck list drawn as input of player_leaderboard.
MaxLeadDecks == 3

\* The normalize_player argument: absent, or _normalize_player over an alias
\* table; a table is the set of its <<alias, canonical>> items.
NoNormalizer == [given |-> FALSE, aliases |-> {}]

NormalizerOver(aliases) == [given |-> TRUE, aliases |-> aliases]

\* _normalize_player, with _player_aliases as an argument.
_normalize_player(aliases, name) ==
    IF name = "" \/ Strip(name) = "" THEN "(unknown)"
    ELSE LET n == Strip(name)
         IN  IF \E a \in aliases : a[1] = n
             THEN (CHOOSE a \in aliases : a[1] = n)[2]
             ELSE n

\* The key of a deck with the normalizer left out.
PlayerKeyRaw(d, normalize_player) ==
    IF d.player = "" \/ d.player = None THEN "(unknown)" ELSE d.player

\* player = norm(d.player or "(unknown)")
PlayerKey(d, normalize_player) ==
    LET name == IF d.player = "" \/ d.player = None THEN "(unknown)" ELSE d.player
    IN  IF normalize_player.given
        THEN _normalize_player(normalize_player.aliases, name)
        ELSE name

\* The ranks that count for top2, top4 and top8.
Top2Ranks == {"1", "2"}

Top4RanksShort == {"1", "2"}

Top4Ranks == {"1", "2", "3-4"}

Top8Ranks == {"1", "2", "3-4", "5-8"}

\* The key (-wins, -points) of the final sort as one integer; n is the number
\* of decks, so that points (in halves, at most 16 a deck) stay the low part.
LeaderboardSortKeyWinsOnly(e, n) == 0 - e.wins

LeaderboardSortKey(e, n) == 0 - (e.wins * (16 * n + 1) + e.points)

\* player_leaderboard; points in halves.
player_leaderboard(ds, normalize_player) ==
    LET keys   == List([i \in DOMAIN ds |-> PlayerKey(ds[i], normalize_player)])
        order  == DictKeys(keys)
        Of(p)  == {i \in DOMAIN ds : keys[i] = order[p]}
        stats  == List([p \in DOMAIN order |->
                      [player     |-> order[p],
                       wins       |-> Cardinality({i \in Of(p) : ds[i].rank = "1"}),
                       top2       |-> Cardinality({i \in Of(p) : ds[i].rank \in Top2Ranks}),
                       top4       |-> Cardinality({i \in Of(p) : ds[i].rank \in Top4Ranks}),
                       top8       |-> Cardinality({i \in Of(p) : ds[i].rank \in Top8Ranks}),
                       points     |-> SumSeq(List([i \in DOMAIN ds |->
                                          IF keys[i] = order[p]
                                          THEN _get_weight(ds[i].rank) ELSE 0])),
                       deck_count |-> Cardinality(Of(p))]])
        perm   == SortedIdx([p \in DOMAIN order |-> LeaderboardSortKey(stats[p], Len(ds))])
    IN  List([k \in DOMAIN order |-> stats[perm[k]]])

\* Decks that differ in player and rank: an alias of a player, a missing name,
\* a name of whitespace, a name with spaces around it, an unrecognised rank.
LeadPool ==
    { Deck(1, "1",     "Jeremy Lb",      <<>>, None, <<>>),
      Deck(2, "2",     "J. Lb",          <<>>, None, <<>>),
      Deck(3, "2",     "Thomas Le Goff", <<>>, None, <<>>),
      Deck(4, "1",     "Thomas Le Goff", <<>>, None, <<>>),
      Deck(5, "3-4",   "",               <<>>, None, <<>>),
      Deck(6, "5-8",   " ",              <<>>, None, <<>>),
      Deck(7, "17-32", "Jeremy Lb",      <<>>, None, <<>>),
      Deck(8, "",      " Jeremy Lb ",    <<>>, None, <<>>) }

Normalizers ==
    { NoNormalizer,
      NormalizerOver({}),
      NormalizerOver({<<"J. Lb", "Jeremy Lb">>}),
      NormalizerOver({<<"J. Lb", "Jeremy Lb">>, <<"Thomas Le Goff", "Jeremy Lb">>}) }

InitLead ==
    /\ \E n \in 0..MaxLeadDecks :
           \E ds \in [1..n -> LeadPool] :
               /\ \A i, j \in 1..n : ds[i] = ds[j] => i = j
               /\ decks = List(ds)
    /\ ignore_lands_cards_file = NoFile
    /\ OtherStateIdle
    /\ result = NoResult

PlayerLeaderboard(normalize_player) ==
    /\ result' = [op |-> "player_leaderboard",
                  normalize_player |-> normalize_player,
                  out |-> player_leaderboard(decks, normalize_player)]
    /\ UNCHANGED <<decks, ignore_lands_cards_file, other_state>>

NextLead == \E np \in Normalizers : PlayerLeaderboard(np)

SpecLead == InitLead /\ [][NextLead]_vars

\* ---- player_leaderboard: the entries

IsLeaderboard == result.op = "player_leaderboard"

\* The decks counted under a player name by the call that was made.
DecksOf(player) ==
    {i \in DOMAIN decks : PlayerKey(decks[i], result.normalize_player) = player}

RankCount(player, ranks) == Cardinality({i \in DecksOf(player) : decks[i].rank \in ranks})

\* The placement weight of a rank, in halves: 8, 6, 4, 2, 1, 0.5, else 1.0.
PlacementWeight(rank) ==
    CASE rank = "1" -> 16 [] rank = "2" -> 12 [] rank = "3-4" -> 8
      [] rank = "5-8" -> 4 [] rank = "9-16" -> 2 [] rank = "17-32" -> 1
      [] OTHER -> 2

PointsOf(player) ==
    SumSeq(List([i \in DOMAIN decks |->
        IF i \in DecksOf(player) THEN PlacementWeight(decks[i].rank) ELSE 0]))

\* C12: player_leaderboard returns one entry per player; wins, top2, top4 and
\* top8 count the player's decks ranked "1", up to "2", up to "3-4" and up to
\* "5-8", points is the sum of the placement weights of the player's decks
\* (1.0 for an empty or unrecognised rank), deck_count the number of the
\* player's decks; so wins <= top2 <= top4 <= top8 <= deck_count and the
\* deck_count values sum to the number of decks.
C12_EntryPerPlayerWithCounts ==
    IsLeaderboard =>
        LET out == result.out
        IN  /\ \A j, k \in DOMAIN out : out[j].player = out[k].player => j = k
            /\ \A i \in DOMAIN decks : \E k \in DOMAIN out : i \in DecksOf(out[k].player)
            /\ \A k \in DOMAIN out :
                   LET e == out[k]
                   IN  /\ e.deck_count = Cardinality(DecksOf(e.player))
                       /\ e.deck_count > 0
                       /\ e.wins = RankCount(e.player, {"1"})
                       /\ e.top2 = RankCount(e.player, {"1", "2"})
                       /\ e.top4 = RankCount(e.player, {"1", "2", "3-4"})
                       /\ e.top8 = RankCount(e.player, {"1", "2", "3-4", "5-8"})
                       /\ e.points = PointsOf(e.player)
                       /\ e.wins <= e.top2 /\ e.top2 <= e.top4
                       /\ e.top4 <= e.top8 /\ e.top8 <= e.deck_count
            /\ SumSeq(List([k \in DOMAIN out |-> out[k].deck_count])) = Len(decks)

\* A player with three decks: a win, a second place and a deck outside the
\* top 8.
C12_Witness ==
    /\ IsLeaderboard
    /\ \E k \in DOMAIN result.out :
           LET e == result.out[k]
           IN  e.wins = 1 /\ e.top2 = 2 /\ e.top8 = 2 /\ e.deck_count = 3

\* ---- player_leaderboard: merging under the canonical name

\* The name as the deck gives it, the sentinel for a missing one.
RawName(d) == IF d.player = "" \/ d.player = None THEN "(unknown)" ELSE d.player

\* The name under which a deck must be counted: the canonical name of its raw
\* name when a canonicalizer is supplied, the raw name otherwise.
CanonicalName(d) ==
    IF result.normalize_player.given
    THEN _normalize_player(result.normalize_player.aliases, RawName(d))
    ELSE RawName(d)

SameCanonical(i) == {j \in DOMAIN decks : CanonicalName(decks[j]) = CanonicalName(decks[i])}

\* C13: every deck is counted in the one entry named by the canonical name of
\* its raw player name, together with all the decks whose raw names have the
\* same canonical name, the statistics of the entry being the sums over these
\* decks; without a canonicalizer the raw name is the name of the entry.
C13_MergedUnderCanonicalName ==
    IsLeaderboard =>
        /\ \A i \in DOMAIN decks :
               \E k \in DOMAIN result.out :
                   LET e == result.out[k]
                   IN  /\ e.player = CanonicalName(decks[i])
                       /\ e.deck_count = Cardinality(SameCanonical(i))
                       /\ e.wins = Cardinality({j \in SameCanonical(i) : decks[j].rank = "1"})
                       /\ e.points = SumSeq(List([j \in DOMAIN decks |->
                              IF j \in SameCanonical(i)
                              THEN PlacementWeight(decks[j].rank) ELSE 0]))
        /\ \A k \in DOMAIN result.out :
               \E i \in DOMAIN decks : result.out[k].player = CanonicalName(decks[i])
        /\ \A j, k \in DOMAIN result.out :
               result.out[j].player = result.out[k].player => j = k

\* Two decks with different raw names, one an alias of the other, merged into
\* one entry under the canonical name.
C13_Witness ==
    /\ IsLeaderboard
    /\ result.normalize_player.given
    /\ \E i, j \in DOMAIN decks :
           /\ decks[i].player = "J. Lb"
           /\ decks[j].player = "Jeremy Lb"
           /\ \E k \in DOMAIN result.out :
                  result.out[k].player = "Jeremy Lb" /\ result.out[k].deck_count >= 2
    /\ \A k \in DOMAIN result.out : result.out[k].player # "J. Lb"

\* ---- player_leaderboard: missing and blank names

IsBlank(name) == name = "" \/ name = None \/ Strip(name) = ""

BlankDecks == {i \in DOMAIN decks : IsBlank(decks[i].player)}

\* C14: with or without a canonicalizer, every deck whose player name is
\* missing or blank is counted under "(unknown)": no entry bears a blank name,
\* and the entry "(unknown)" counts all those decks.
C14_BlankCountedAsUnknown ==
    IsLeaderboard =>
        /\ \A k \in DOMAIN result.out : ~IsBlank(result.out[k].player)
        /\ BlankDecks # {} =>
               \E k \in DOMAIN result.out :
                   /\ result.out[k].player = "(unknown)"
                   /\ result.out[k].deck_count >= Cardinality(BlankDecks)

\* ---- player_leaderboard: the order of the entries

\* C15: of two consecutive entries the first has more wins, or as many wins
\* and at least as many points.
C15_OrderedByWinsThenPoints ==
    IsLeaderboard =>
        \A k \in 1..(Len(result.out) - 1) :
            LET e1 == result.out[k]
                e2 == result.out[k + 1]
            IN  e1.wins > e2.wins \/ (e1.wins = e2.wins /\ e1.points >= e2.points)

\* Three entries: the first has more wins than the second, the second as
\* many wins as the third and more points, and the player of the first deck
\* of the list comes last.
C15_Witness ==
    /\ IsLeaderboard
    /\ Len(result.out) = 3
    /\ result.out[1].wins > result.out[2].wins
    /\ result.out[2].wins = result.out[3].wins
    /\ result.out[2].points > result.out[3].points
    /\ PlayerKey(decks[1], result.normalize_player) = result.out[3].player

\* ------------------------------------ C16: distribution keys and counts

\* The commander key the claim gives to a set of commander names: the names
\* in lexicographic order joined with " / ".
KeyOfCommanderSet(S) ==
    CASE S = {} -> "(no commander)"
      [] S = {"Atraxa"} -> "Atraxa"
      [] S = {"Kraum"} -> "Kraum"
      [] S = {"Tymna"} -> "Tymna"
      [] S = {"Kraum", "Tymna"} -> "Kraum / Tymna"

\* The key the claim gives to a deck; an archetype is absent when it is None
\* or the empty string.
ClaimedKey(d) ==
    IF result.op = "commander_distribution"
    THEN KeyOfCommanderSet(Range(d.commanders))
    ELSE IF d.archetype \in {None, ""} THEN "(unknown)" ELSE d.archetype

DecksWithKey(key) == {i \in DOMAIN decks : ClaimedKey(decks[i]) = key}

\* The count the claim gives to a key, in tenths: the number of its decks, or
\* in weighted mode the sum of their placement weights.
ClaimedCount(key) ==
    IF result.placement_weighted
    THEN 5 * SumSeq(List([i \in DOMAIN decks |->
                 IF i \in DecksWithKey(key) THEN PlacementWeight(decks[i].rank) ELSE 0]))
    ELSE 10 * Cardinality(DecksWithKey(key))

\* C16: a distribution has exactly one entry per distinct key of the deck
\* set, the entries are in non-increasing count, the commander key is the
\* sorted commander names joined with " / " (or "(no commander)"), the
\* archetype key the archetype (or "(unknown)"), and the count of an entry is
\* the number of decks with its key, or the sum of their placement weights in
\* weighted mode.
C16_EntryPerKeyWithCount ==
    IsDistribution =>
        /\ {EntryKey(result.out[k]) : k \in DOMAIN result.out}
               = {ClaimedKey(decks[i]) : i \in DOMAIN decks}
        /\ \A k, l \in DOMAIN result.out :
               EntryKey(result.out[k]) = EntryKey(result.out[l]) => k = l
        /\ \A k \in DOMAIN result.out :
               result.out[k].count = ClaimedCount(EntryKey(result.out[k]))
        /\ \A k \in 1..(Len(result.out) - 1) :
               result.out[k].count >= result.out[k + 1].count

\* A weighted commander distribution over decks that list the same two
\* commanders in opposite orders and a deck ranked "17-32": the two are one
\* entry, and some entry counts 0.5.
C16_Witness ==
    /\ result.op = "commander_distribution"
    /\ result.placement_weighted
    /\ \E i, j \in DOMAIN decks :
           /\ decks[i].commanders = <<"Kraum", "Tymna">>
           /\ decks[j].commanders = <<"Tymna", "Kraum">>
    /\ \E k \in DOMAIN result.out :
           /\ result.out[k].commander = "Kraum / Tymna"
           /\ result.out[k].count = 120
    /\ \E k \in DOMAIN result.out : result.out[k].count = 5
    /\ Len(result.out) >= 3

\* ------------------------------------------------ the composition analyzer

\* Bound on the number of decks of an analysed collection.
MaxAnalysisDecks == 2

\* The characters of the strings that are searched for substrings.
Chars(s) ==
    CASE s = "" -> <<>>
      [] s = "LAND" -> <<"L", "A", "N", "D">>
      [] s = " // " -> <<" ", "/", "/", " ">>
      [] s = "Land" -> <<"L", "a", "n", "d">>
      [] s = "Creature" -> <<"C", "r", "e", "a", "t", "u", "r", "e">>
      [] s = "Instant" -> <<"I", "n", "s", "t", "a", "n", "t">>
      [] s = "Sorcery" -> <<"S", "o", "r", "c", "e", "r", "y">>
      [] s = "Enchantment" -> <<"E", "n", "c", "h", "a", "n", "t", "m", "e", "n", "t">>
      [] s = "Artifact" -> <<"A", "r", "t", "i", "f", "a", "c", "t">>
      [] s = "Planeswalker" -> <<"P", "l", "a", "n", "e", "s", "w", "a", "l", "k", "e", "r">>
      [] s = "Legendary Creature" -> <<"L", "e", "g", "e", "n", "d", "a", "r", "y", " ", "C", "r", "e", "a", "t", "u", "r", "e">>
      [] s = "Basic Land" -> <<"B", "a", "s", "i", "c", " ", "L", "a", "n", "d">>
      [] s = "Land Creature" -> <<"L", "a", "n", "d", " ", "C", "r", "e", "a", "t", "u", "r", "e">>
      [] s = "Fire / Ice" -> <<"F", "i", "r", "e", " ", "/", " ", "I", "c", "e">>
      [] s = "Fire // Ice" -> <<"F", "i", "r", "e", " ", "/", "/", " ", "I", "c", "e">>
      [] s = "Life / Death" -> <<"L", "i", "f", "e", " ", "/", " ", "D", "e", "a", "t", "h">>
      [] s = "Life // Death" -> <<"L", "i", "f", "e", " ", "/", "/", " ", "D", "e", "a", "t", "h">>
      [] s = "Lightning Bolt" -> <<"L", "i", "g", "h", "t", "n", "i", "n", "g", " ", "B", "o", "l", "t">>
      [] s = "Wear  /  Tear" -> <<"W", "e", "a", "r", " ", " ", "/", " ", " ", "T", "e", "a", "r">>
      [] s = "Wear // Tear" -> <<"W", "e", "a", "r", " ", "/", "/", " ", "T", "e", "a", "r">>
      [] s = "Fire/Ice" -> <<"F", "i", "r", "e", "/", "I", "c", "e">>
      [] s = "1 Fire / Ice" -> <<"1", " ", "F", "i", "r", "e", " ", "/", " ", "I", "c", "e">>
      [] s = "2 Lightning Bolt" -> <<"2", " ", "L", "i", "g", "h", "t", "n", "i", "n", "g", " ", "B", "o", "l", "t">>
      [] s = "1 Fire // Ice" -> <<"1", " ", "F", "i", "r", "e", " ", "/", "/", " ", "I", "c", "e">>
      [] s = "  3  Wear  /  Tear " -> <<" ", " ", "3", " ", " ", "W", "e", "a", "r", " ", " ", "/", " ", " ", "T", "e", "a", "r", " ">>
      [] s = "LANDS" -> <<"L", "A", "N", "D", "S">>
      [] s = "x Fire / Ice" -> <<"x", " ", "F", "i", "r", "e", " ", "/", " ", "I", "c", "e">>
      [] s = "12 Fire/Ice" -> <<"1", "2", " ", "F", "i", "r", "e", "/", "I", "c", "e">>
      [] s = "15/02/26" -> <<"1", "5", "/", "0", "2", "/", "2", "6">>
      [] s = "01/02/26" -> <<"0", "1", "/", "0", "2", "/", "2", "6">>
      [] s = "28/02/26" -> <<"2", "8", "/", "0", "2", "/", "2", "6">>
      [] s = "01/03/26" -> <<"0", "1", "/", "0", "3", "/", "2", "6">>
      [] s = "31/12/25" -> <<"3", "1", "/", "1", "2", "/", "2", "5">>
      [] s = "invalid" -> <<"i", "n", "v", "a", "l", "i", "d">>
      [] s = "2026-02-01" -> <<"2", "0", "2", "6", "-", "0", "2", "-", "0", "1">>

LowerCase == <<"a", "b", "c", "d", "e", "f", "g", "h", "i", "j", "k", "l", "m", "n", "o", "p", "q", "r", "s", "t", "u", "v", "w", "x", "y", "z">>

UpperCase == <<"A", "B", "C", "D", "E", "F", "G", "H", "I", "J", "K", "L", "M", "N", "O", "P", "Q", "R", "S", "T", "U", "V", "W", "X", "Y", "Z">>

\* str.upper(), on a string given by its characters.
Upper(cs) ==
    [k \in DOMAIN cs |->
        IF \E a \in DOMAIN LowerCase : LowerCase[a] = cs[k]
        THEN UpperCase[CHOOSE a \in DOMAIN LowerCase : LowerCase[a] = cs[k]]
        ELSE cs[k]]

\* needle in hay, for strings given by their characters.
Contains(needle, hay) ==
    \E k \in 0..(Len(hay) - Len(needle)) :
        \A j \in 1..Len(needle) : hay[k + j] = needle[j]

_TYPE_ORDER ==
    <<"Land", "Creature", "Instant", "Sorcery", "Enchantment", "Artifact", "Planeswalker">>

\* The first type of _TYPE_ORDER whose upper-case name is in the upper-case
\* type line, else "Other".
_primary_type(type_line) ==
    LET upper == Upper(Chars(type_line))
        hits == {t \in DOMAIN _TYPE_ORDER : Contains(Upper(Chars(_TYPE_ORDER[t])), upper)}
    IN  IF hits = {} THEN "Other"
        ELSE _TYPE_ORDER[CHOOSE t \in hits : \A u \in hits : t <= u]

\* The empty dict.
EmptyMeta == [k \in {} |-> 0]

\* card_metadata.get(card, {})
MetaGet(card_metadata, card) ==
    IF card \in DOMAIN card_metadata THEN card_metadata[card] ELSE EmptyMeta

\* A dict is true when it has a key.
Truthy(meta) == DOMAIN meta # {}

\* meta.get("type_line") or ""
TypeLineOf(meta) == IF "type_line" \in DOMAIN meta THEN meta.type_line ELSE ""

\* Land detection by the card's name alone.
IsLandNameOnly(meta, card) == _is_land_card(card)

\* "LAND" in type_line if meta else _is_land_card(card), where type_line is the
\* upper-case type line.
IsLand(meta, card) ==
    IF Truthy(meta) THEN Contains(Chars("LAND"), Upper(Chars(TypeLineOf(meta))))
    ELSE _is_land_card(card)

\* _primary_type(...) if meta else ("Land" if is_land else "Other")
Primary(meta, card) ==
    IF Truthy(meta) THEN _primary_type(TypeLineOf(meta))
    ELSE IF IsLand(meta, card) THEN "Land" ELSE "Other"

\* cmc is not None, for cmc = meta.get("cmc"): the tables hold a number
\* wherever they hold the key.
HasCmc(meta) == "cmc" \in DOMAIN meta

\* The cmc rounded up to an integer.
CmcIntRounded(meta) == (meta.cmc + 1) \div 2

\* int(cmc) for a number given in halves.
CmcInt(meta) == meta.cmc \div 2

\* meta.get("color_identity") or meta.get("colors") or []
ColorsOf(meta) ==
    IF "color_identity" \in DOMAIN meta /\ Len(meta.color_identity) > 0
    THEN meta.color_identity
    ELSE IF "colors" \in DOMAIN meta THEN meta.colors ELSE <<>>

ColorKeys == <<"W", "U", "B", "R", "G", "C">>

\* What one mainboard entry adds to color_counts[c]: qty for each occurrence
\* of c in the card's colors, and qty to "C" when the card has metadata and
\* no colors.
ColorShare(meta, qty, c) ==
    LET colors == ColorsOf(meta)
    IN  qty * Cardinality({k \in DOMAIN colors : colors[k] = c})
          + (IF c = "C" /\ Len(colors) = 0 /\ Truthy(meta) THEN qty ELSE 0)

\* color_counts after the loop over the mainboard.
ColorCounts(deck, card_metadata) ==
    LET mb == deck.mainboard
    IN  [c \in Range(ColorKeys) |->
            SumSeq(List([i \in DOMAIN mb |->
                ColorShare(MetaGet(card_metadata, mb[i][2]), mb[i][1], c)]))]

\* deck_analysis: mana_curve as the list of (cmc, quantity) items in
\* increasing cmc, color_distribution in tenths of a percent,
\* lands_distribution, and type_distribution as the list of (type, quantity)
\* items in insertion order.  The grouped_by_* listings and card_meta are
\* in deck_groupings.
deck_analysis(deck, card_metadata) ==
    LET mb == deck.mainboard
        meta == List([i \in DOMAIN mb |-> MetaGet(card_metadata, mb[i][2])])
        is_land == List([i \in DOMAIN mb |-> IsLand(meta[i], mb[i][2])])
        primary == List([i \in DOMAIN mb |-> Primary(meta[i], mb[i][2])])
        types == DictKeys(primary)
        lands == SumSeq(List([i \in DOMAIN mb |-> IF is_land[i] THEN mb[i][1] ELSE 0]))
        nonlands == SumSeq(List([i \in DOMAIN mb |-> IF is_land[i] THEN 0 ELSE mb[i][1]]))
        curved == SelectSeq(List([i \in DOMAIN mb |-> i]),
                            LAMBDA i : ~is_land[i] /\ HasCmc(meta[i]))
        cmcs == DictKeys(List([k \in DOMAIN curved |-> CmcInt(meta[curved[k]])]))
        cmc_order == SortedIdx(cmcs)
        color_counts == ColorCounts(deck, card_metadata)
        total_color_slots == SumSeq(List([k \in DOMAIN ColorKeys |-> color_counts[ColorKeys[k]]]))
    IN  [mana_curve |->
            List([k \in DOMAIN cmcs |->
                <<cmcs[cmc_order[k]],
                  SumSeq(List([j \in DOMAIN curved |->
                      IF CmcInt(meta[curved[j]]) = cmcs[cmc_order[k]]
                      THEN mb[curved[j]][1] ELSE 0]))>>]),
         color_distribution |->
            [c \in Range(ColorKeys) |->
                IF total_color_slots # 0
                THEN Round1(1000 * color_counts[c], total_color_slots) ELSE 0],
         lands_distribution |-> [lands |-> lands, nonlands |-> nonlands],
         type_distribution |->
            List([k \in DOMAIN types |->
                <<types[k],
                  SumSeq(List([i \in DOMAIN mb |->
                      IF primary[i] = types[k] THEN mb[i][1] ELSE 0]))>>])]

\* A card's metadata as card_lookup.lookup_cards stores it: cmc (here in
\* halves), type_line, colors and color_identity.
CardMeta(type_line, cmc, colors, color_identity) ==
    [type_line |-> type_line, cmc |-> cmc, colors |-> colors,
     color_identity |-> color_identity]

\* The metadata of the cards of the analysed decks.  "Fire / Ice" has a
\* hand-written entry without color_identity.
AllMetadata ==
    [card \in {"Lightning Bolt", "Spider-Man 2099", "Lands", "Island", "Sol Ring",
               "Little Girl", "Dryad Arbor", "Fire / Ice"} |->
        CASE card = "Lightning Bolt" -> CardMeta("Instant", 2, <<"R">>, <<"R">>)
          [] card = "Spider-Man 2099" ->
                 CardMeta("Legendary Creature", 6, <<"U", "R">>, <<"U", "R">>)
          [] card = "Lands" -> CardMeta("Land", 0, <<>>, <<>>)
          [] card = "Island" -> CardMeta("Basic Land", 0, <<>>, <<"U">>)
          [] card = "Sol Ring" -> CardMeta("Artifact", 2, <<>>, <<>>)
          [] card = "Little Girl" -> CardMeta("Creature", 1, <<"W">>, <<"W">>)
          [] card = "Dryad Arbor" -> CardMeta("Land Creature", 0, <<"G">>, <<"G">>)
          [] card = "Fire / Ice" ->
                 [type_line |-> "Instant", cmc |-> 8, colors |-> <<"U", "R">>]]

\* The lookup tables handed to the analyzer: the cards that were found, among
\* them all of them, none, and the table of the tests.
MetadataPool ==
    {[card \in S |-> AllMetadata[card]] :
        S \in {DOMAIN AllMetadata, {},
               {"Lightning Bolt", "Spider-Man 2099", "Lands"},
               {"Island", "Sol Ring", "Little Girl", "Dryad Arbor", "Fire / Ice"},
               {"Lightning Bolt", "Island", "Fire / Ice"},
               {"Lands", "Sol Ring", "Little Girl", "Dryad Arbor"}}}

\* Decks whose mainboards differ in what the analyzer reads: the deck of the
\* tests, a repeated entry, lands by name only, lands only, no card.
AnalysisPool ==
    { Deck(1, "1", "Jeremy Lb", <<"Spider-Man 2099">>, "UR Aggro",
           << <<1, "Spider-Man 2099">>, <<2, "Lightning Bolt">>, <<38, "Lands">> >>),
      Deck(2, "2", "Thomas Le Goff", <<>>, "UR Aggro",
           << <<2, "Lightning Bolt">>, <<10, "Island">>, <<1, "Sol Ring">>,
              <<2, "Lightning Bolt">> >>),
      Deck(3, "3-4", "Jeremy Lb", <<>>, "UR Aggro",
           << <<1, "Little Girl">>, <<1, "Dryad Arbor">>, <<1, "Fire / Ice">>,
              <<3, "Command Tower">> >>),
      Deck(4, "5-8", "Jeremy Lb", <<>>, "UR Aggro", <<>>),
      Deck(5, "5-8", "Thomas Le Goff", <<>>, "UR Aggro",
           << <<4, "Island">>, <<1, "Lands">> >>),
      Deck(6, "9-16", "Thomas Le Goff", <<>>, "UR Aggro",
           << <<1, "Sol Ring">>, <<3, "Little Girl">> >>) }

InitDeck ==
    /\ \E n \in 1..MaxAnalysisDecks :
          \E ds \in [1..n -> AnalysisPool] :
              /\ \A i, j \in 1..n : ds[i] = ds[j] => i = j
              /\ decks = List(ds)
    /\ ignore_lands_cards_file = NoFile
    /\ OtherStateIdle
    /\ result = NoResult

\* deck_analysis(deck, card_metadata) for the i-th deck of the collection.
DeckAnalysis(i, card_metadata) ==
    /\ result' = [op |-> "deck_analysis", deck |-> i,
                  card_metadata |-> card_metadata,
                  out |-> deck_analysis(decks[i], card_metadata)]
    /\ UNCHANGED <<decks, ignore_lands_cards_file, other_state>>

NextDeck == \E i \in DOMAIN decks, card_metadata \in MetadataPool : DeckAnalysis(i, card_metadata)

SpecDeck == InitDeck /\ [][NextDeck]_vars

\* ------------------------------------ C17: lands, nonlands and the types

IsDeckAnalysis == result.op = "deck_analysis"

\* The mainboard of the analysed deck.
Analysed == decks[result.deck].mainboard

\* The sum of the quantities of the mainboard entries that satisfy P.
QtyWhere(P(_)) ==
    SumSeq(List([i \in DOMAIN Analysed |-> IF P(i) THEN Analysed[i][1] ELSE 0]))

HasMetadata(i) == Analysed[i][2] \in DOMAIN result.card_metadata

\* The land test of the claim: the metadata type line contains "Land", or the
\* card has no metadata and its name is in the land-name list.
ClaimedLand(i) ==
    IF HasMetadata(i)
    THEN Contains(Chars("Land"), Chars(result.card_metadata[Analysed[i][2]].type_line))
    ELSE Analysed[i][2] \in BASIC_LANDS \cup LAND_KEYWORDS

AnyEntry(i) == TRUE

\* type_distribution[t], 0 when absent.
TypeQty(t) ==
    LET td == result.out.type_distribution
    IN  SumSeq(List([k \in DOMAIN td |-> IF td[k][1] = t THEN td[k][2] ELSE 0]))

TypeTotal ==
    LET td == result.out.type_distribution
    IN  SumSeq(List([k \in DOMAIN td |-> td[k][2]]))

\* C17: lands + nonlands is the sum of the quantities of the mainboard
\* entries; lands is the quantity of the entries whose metadata type line
\* contains "Land" or, without metadata, whose name is in the land-name list;
\* lands equals type_distribution["Land"] (0 when absent) and the
\* type_distribution values sum to the mainboard total.
C17_LandsPlusNonlandsIsTotal ==
    IsDeckAnalysis =>
        LET ld == result.out.lands_distribution
        IN  /\ ld.lands + ld.nonlands = QtyWhere(AnyEntry)
            /\ ld.lands = QtyWhere(ClaimedLand)
            /\ ld.lands = TypeQty("Land")
            /\ TypeTotal = QtyWhere(AnyEntry)

\* A deck with a land by its type line ("Land Creature", a name that is not
\* in the land-name list), three copies of a land known by its name only, and
\* two non-land cards.
C17_Witness ==
    /\ IsDeckAnalysis
    /\ \E i, j \in DOMAIN Analysed :
           /\ Analysed[i][2] = "Dryad Arbor" /\ HasMetadata(i)
           /\ Analysed[j] = <<3, "Command Tower">> /\ ~HasMetadata(j)
    /\ result.out.lands_distribution = [lands |-> 4, nonlands |-> 2]
    /\ TypeQty("Land") = 4

\* ------------------------------------------------ C18: the mana curve

NonLand(i) == ~ClaimedLand(i)

NonLandWithoutMetadata(i) == ~ClaimedLand(i) /\ ~HasMetadata(i)

CurveTotal ==
    LET mc == result.out.mana_curve
    IN  SumSeq(List([k \in DOMAIN mc |-> mc[k][2]]))

\* mana_curve[k], 0 when absent.
CurveQty(k) ==
    LET mc == result.out.mana_curve
    IN  SumSeq(List([j \in DOMAIN mc |-> IF mc[j][1] = k THEN mc[j][2] ELSE 0]))

\* The non-land entries whose metadata gives a converted mana cost (in
\* halves) that truncates to k.
CostsTruncatedTo(k) ==
    {i \in DOMAIN Analysed :
        /\ ~ClaimedLand(i) /\ HasMetadata(i)
        /\ 2 * k <= result.card_metadata[Analysed[i][2]].cmc
        /\ result.card_metadata[Analysed[i][2]].cmc < 2 * k + 2}

CurveKeys == {result.out.mana_curve[j][1] : j \in DOMAIN result.out.mana_curve}

\* C18 as stated: no land is in a bucket, every non-land card is in exactly
\* one bucket, so the mana_curve values sum to lands_distribution.nonlands.
C18_CurveSumsToNonlands ==
    IsDeckAnalysis =>
        /\ \A k \in CurveKeys :
               CurveQty(k) = SumSeq(List([i \in DOMAIN Analysed |->
                   IF i \in CostsTruncatedTo(k) THEN Analysed[i][1] ELSE 0]))
        /\ CurveTotal = result.out.lands_distribution.nonlands

\* C18 amended: mana_curve has one bucket per integer k that is the truncated
\* converted mana cost of a non-land card with metadata, in increasing k, and
\* its value is the total quantity of those cards; lands and cards without
\* metadata are in no bucket, so the values sum to nonlands minus the
\* quantity of the non-land cards without metadata.
C18_CurveSumsToNonlandsWithMetadata ==
    IsDeckAnalysis =>
        /\ \A k \in 0..4 : (k \in CurveKeys) <=> (CostsTruncatedTo(k) # {})
        /\ CurveKeys \subseteq 0..4
        /\ \A k \in CurveKeys :
               CurveQty(k) = SumSeq(List([i \in DOMAIN Analysed |->
                   IF i \in CostsTruncatedTo(k) THEN Analysed[i][1] ELSE 0]))
        /\ \A j \in 1..(Len(result.out.mana_curve) - 1) :
               result.out.mana_curve[j][1] < result.out.mana_curve[j + 1][1]
        /\ CurveTotal = result.out.lands_distribution.nonlands
                            - QtyWhere(NonLandWithoutMetadata)

\* A deck with a non-land card of cost 0.5 (bucket 0), a non-land card of
\* cost 4, a land with metadata and a non-land card without metadata.
C18_Witness ==
    /\ IsDeckAnalysis
    /\ \E i \in DOMAIN Analysed :
           /\ NonLand(i) /\ HasMetadata(i)
           /\ result.card_metadata[Analysed[i][2]].cmc = 1
    /\ \E i \in DOMAIN Analysed : ClaimedLand(i) /\ HasMetadata(i)
    /\ \E i \in DOMAIN Analysed : NonLandWithoutMetadata(i)
    /\ CurveQty(0) >= 1
    /\ CurveTotal < result.out.lands_distribution.nonlands

\* ---------------------------------------------- C19: the colour buckets

\* The colours the claim gives to an entry: its color_identity, or its colors
\* when color_identity is absent or empty; none without metadata.
ClaimedColors(i) ==
    IF ~HasMetadata(i) THEN {}
    ELSE LET meta == result.card_metadata[Analysed[i][2]]
         IN  IF "color_identity" \in DOMAIN meta /\ meta.color_identity # <<>>
             THEN Range(meta.color_identity)
             ELSE IF "colors" \in DOMAIN meta THEN Range(meta.colors) ELSE {}

\* The bucket of c as the claim counts it: over the non-land entries, the
\* quantity of those that have the colour c, and for "C" the quantity of
\* those that have no colour or no colour information.
ClaimedBucket(c) ==
    SumSeq(List([i \in DOMAIN Analysed |->
        IF ClaimedLand(i) THEN 0
        ELSE IF c \in ClaimedColors(i) \/ (c = "C" /\ ClaimedColors(i) = {})
             THEN Analysed[i][1] ELSE 0]))

ClaimedBucketSum == SumSeq(List([k \in DOMAIN ColorKeys |-> ClaimedBucket(ColorKeys[k])]))

\* C19: color_distribution is computed over the non-land mainboard cards
\* only; a card adds its quantity to every colour of its color_identity (or
\* colors), a card without colour or without colour information adds it to
\* C, and each of W, U, B, R, G, C is 100 * bucket / sum of the buckets
\* rounded to one decimal, or 0 when the sum is 0.
C19_ColorsOfNonLandCards ==
    IsDeckAnalysis =>
        \A k \in DOMAIN ColorKeys :
            result.out.color_distribution[ColorKeys[k]] =
                (IF ClaimedBucketSum = 0 THEN 0
                 ELSE Round1(1000 * ClaimedBucket(ColorKeys[k]), ClaimedBucketSum))

\* ------------------------------------------------ the archetype aggregate

\* The sum itself, not divided by the number of decks.
AverageAsSum(sum, n) == [num |-> sum, den |-> 1]

\* An average: the sum of the per-deck counts over the number of decks.
Average(sum, n) == [num |-> sum, den |-> n]

\* The value of key k in a list of (key, value) items, 0 when absent.
ItemGet(items, k) ==
    SumSeq(List([j \in DOMAIN items |-> IF items[j][1] = k THEN items[j][2] ELSE 0]))

\* archetype_aggregate_analysis(decks, metadata): the counts of deck_analysis
\* averaged per deck.  mana_curve is in increasing cmc and type_distribution
\* in the order in which the types first occur; the colour percentages are
\* taken over the averaged colour counts.
archetype_aggregate_analysis(ds, card_metadata) ==
    LET n == Len(ds)
        per == List([i \in DOMAIN ds |-> deck_analysis(ds[i], card_metadata)])
        counts == List([i \in DOMAIN ds |-> ColorCounts(ds[i], card_metadata)])
        cmcs == DictKeys(ConcatAll(List([i \in DOMAIN ds |->
                    List([j \in DOMAIN per[i].mana_curve |-> per[i].mana_curve[j][1]])])))
        cmc_order == SortedIdx(cmcs)
        types == DictKeys(ConcatAll(List([i \in DOMAIN ds |->
                    List([j \in DOMAIN per[i].type_distribution |->
                        per[i].type_distribution[j][1]])])))
        color_sum == [c \in Range(ColorKeys) |->
                        SumSeq(List([i \in DOMAIN ds |-> counts[i][c]]))]
        total == SumSeq(List([k \in DOMAIN ColorKeys |-> color_sum[ColorKeys[k]]]))
    IN  [mana_curve |->
            List([k \in DOMAIN cmcs |->
                <<cmcs[cmc_order[k]],
                  Average(SumSeq(List([i \in DOMAIN ds |->
                              ItemGet(per[i].mana_curve, cmcs[cmc_order[k]])])), n)>>]),
         color_distribution |->
            [c \in Range(ColorKeys) |->
                IF total # 0 THEN Round1(1000 * color_sum[c], total) ELSE 0],
         lands_distribution |->
            [lands |-> Average(SumSeq(List([i \in DOMAIN ds |->
                                  per[i].lands_distribution.lands])), n),
             nonlands |-> Average(SumSeq(List([i \in DOMAIN ds |->
                                  per[i].lands_distribution.nonlands])), n)],
         type_distribution |->
            List([k \in DOMAIN types |->
                <<types[k],
                  Average(SumSeq(List([i \in DOMAIN ds |->
                              ItemGet(per[i].type_distribution, types[k])])), n)>>])]

ArchetypeAggregateAnalysis(card_metadata) ==
    /\ result' = [op |-> "archetype_aggregate_analysis",
                  card_metadata |-> card_metadata,
                  out |-> archetype_aggregate_analysis(decks, card_metadata)]
    /\ UNCHANGED <<decks, ignore_lands_cards_file, other_state>>

NextAggregate == \E card_metadata \in MetadataPool : ArchetypeAggregateAnalysis(card_metadata)

SpecAggregate == InitDeck /\ [][NextAggregate]_vars

\* ------------------------------------------ C20: averages, not sums

IsAggregate == result.op = "archetype_aggregate_analysis"

\* deck_analysis of the i-th deck with the metadata of the aggregate.
PerDeck(i) == deck_analysis(decks[i], result.card_metadata)

\* a is the sum of the per-deck counts cs divided by the number of decks.
IsAverageOf(a, cs) == a.den = Len(decks) /\ a.num = SumSeq(cs)

\* The aggregate of one deck has the keys and the values of the deck's
\* analysis.
SameItems(avgs, items) ==
    /\ Len(avgs) = Len(items)
    /\ \A k \in DOMAIN avgs :
           /\ avgs[k][1] = items[k][1]
           /\ avgs[k][2].num = avgs[k][2].den * items[k][2]

\* C20: in the aggregate every count of mana_curve, lands_distribution and
\* type_distribution is the sum of the per-deck counts divided by the number
\* of decks, each key of a deck's analysis is a key of the aggregate, and for
\* one deck the aggregate equals that deck's deck_analysis.
C20_CountsAveragedPerDeck ==
    IsAggregate =>
        LET out == result.out
            per == List([i \in DOMAIN decks |-> PerDeck(i)])
        IN  /\ IsAverageOf(out.lands_distribution.lands,
                   List([i \in DOMAIN decks |-> per[i].lands_distribution.lands]))
            /\ IsAverageOf(out.lands_distribution.nonlands,
                   List([i \in DOMAIN decks |-> per[i].lands_distribution.nonlands]))
            /\ \A k \in DOMAIN out.mana_curve :
                   IsAverageOf(out.mana_curve[k][2],
                       List([i \in DOMAIN decks |->
                           ItemGet(per[i].mana_curve, out.mana_curve[k][1])]))
            /\ \A k \in DOMAIN out.type_distribution :
                   IsAverageOf(out.type_distribution[k][2],
                       List([i \in DOMAIN decks |->
                           ItemGet(per[i].type_distribution, out.type_distribution[k][1])]))
            /\ \A i \in DOMAIN decks :
                   /\ \A j \in DOMAIN per[i].mana_curve :
                          \E k \in DOMAIN out.mana_curve :
                              out.mana_curve[k][1] = per[i].mana_curve[j][1]
                   /\ \A j \in DOMAIN per[i].type_distribution :
                          \E k \in DOMAIN out.type_distribution :
                              out.type_distribution[k][1] = per[i].type_distribution[j][1]
            /\ Len(decks) = 1 =>
                   /\ SameItems(out.mana_curve, per[1].mana_curve)
                   /\ SameItems(out.type_distribution, per[1].type_distribution)
                   /\ out.color_distribution = per[1].color_distribution
                   /\ out.lands_distribution.lands.num = per[1].lands_distribution.lands
                   /\ out.lands_distribution.nonlands.num = per[1].lands_distribution.nonlands

\* Two decks with 38 and 5 lands: the aggregate has 43 / 2 lands, and a
\* mana_curve bucket that only one of the decks has.
C20_Witness ==
    /\ IsAggregate
    /\ Len(decks) = 2
    /\ result.out.lands_distribution.lands = [num |-> 43, den |-> 2]
    /\ \E k \in DOMAIN result.out.mana_curve :
           /\ result.out.mana_curve[k][2].num > 0
           /\ \E i \in DOMAIN decks :
                  ItemGet(PerDeck(i).mana_curve, result.out.mana_curve[k][1]) = 0

\* --------------------------------- deck_analysis: groupings and purity

\* Bound on the number of successive calls of deck_analysis on one deck.
MaxCalls == 2

\* A deck with its sideboard.
WithSideboard(d, sideboard) ==
    [deck_id |-> d.deck_id, rank |-> d.rank, player |-> d.player,
     commanders |-> d.commanders, archetype |-> d.archetype,
     mainboard |-> d.mainboard, sideboard |-> sideboard]

\* _TYPE_ORDER.index(t) if t in _TYPE_ORDER else 99
TypeRank(t) ==
    IF \E k \in DOMAIN _TYPE_ORDER : _TYPE_ORDER[k] = t
    THEN (CHOOSE k \in DOMAIN _TYPE_ORDER : _TYPE_ORDER[k] = t) - 1
    ELSE 99

color_key_order == <<"W", "U", "B", "R", "G", "C", "M", "Land">>

\* color_key_order.index(c) if c in color_key_order else 99
ColorRank(c) ==
    IF \E k \in DOMAIN color_key_order : color_key_order[k] = c
    THEN (CHOOSE k \in DOMAIN color_key_order : color_key_order[k] = c) - 1
    ELSE 99

\* _card_color_group(meta): colors, else color_identity; "C" for none, "M"
\* for several, else the colour itself when it is one of the labels.
_card_color_group(meta) ==
    LET colors == IF "colors" \in DOMAIN meta /\ Len(meta.colors) > 0 THEN meta.colors
                  ELSE IF "color_identity" \in DOMAIN meta THEN meta.color_identity
                  ELSE <<>>
    IN  IF Len(colors) = 0 THEN "C"
        ELSE IF Len(colors) > 1 THEN "M"
        ELSE IF colors[1] \in {"W", "U", "B", "R", "G", "C", "M"} THEN colors[1] ELSE "C"

\* color_group of an entry: "Land" for a land, else the colour group, "C"
\* without metadata.
ColorGroup(meta, card) ==
    IF IsLand(meta, card) THEN "Land"
    ELSE IF Truthy(meta) THEN _card_color_group(meta) ELSE "C"

\* cmc_val = int(meta.get("cmc", 0)) if meta else 0
CmcVal(meta) == IF Truthy(meta) /\ HasCmc(meta) THEN CmcInt(meta) ELSE 0

\* {k: grouped[k] for k in sorted(grouped.keys(), key=rank)}, where grouped
\* collects the entries of a board under keys[i] in the order of the board:
\* the list of (key, entries) items.  ranks[i] is the sort rank of keys[i];
\* keys of one rank are equal in every use.
Grouped(board, keys0, ranks0) ==
    LET keys == List(keys0)
        ranks == List(ranks0)
        first == SelectSeq(List([i \in DOMAIN board |-> i]),
                           LAMBDA i : \A j \in 1..(i - 1) : keys[j] # keys[i])
        order == SortedIdx([k \in DOMAIN first |-> ranks[first[k]]])
    IN  List([k \in DOMAIN first |->
            <<keys[first[order[k]]],
              SelectSeq(List([i \in DOMAIN board |-> i]),
                        LAMBDA i : keys[i] = keys[first[order[k]]])>>])

\* The entries of a grouping, as (qty, card) tuples.
GroupEntries(board, groups) ==
    List([k \in DOMAIN groups |->
        <<groups[k][1], List([j \in DOMAIN groups[k][2] |-> board[groups[k][2][j]]])>>])

\* grouped_by_type, grouped_by_cmc (keys str(k)) and grouped_by_color of a
\* board.
BoardGroups(board, card_metadata) ==
    LET meta == List([i \in DOMAIN board |-> MetaGet(card_metadata, board[i][2])])
        primary == List([i \in DOMAIN board |-> Primary(meta[i], board[i][2])])
        cmc_val == List([i \in DOMAIN board |-> CmcVal(meta[i])])
        color_group == List([i \in DOMAIN board |-> ColorGroup(meta[i], board[i][2])])
        by_cmc == GroupEntries(board, Grouped(board, cmc_val, cmc_val))
    IN  [by_type |-> GroupEntries(board,
                        Grouped(board, primary,
                                [i \in DOMAIN board |-> TypeRank(primary[i])])),
         by_cmc |-> List([k \in DOMAIN by_cmc |-> <<ToString(by_cmc[k][1]), by_cmc[k][2]>>]),
         by_color |-> GroupEntries(board,
                        Grouped(board, color_group,
                                [i \in DOMAIN board |-> ColorRank(color_group[i])]))]

\* card_meta: for each card of the mainboard, then of the sideboard, that has
\* metadata, its mana_cost, cmc, type_line and colors, in the order of first
\* occurrence.
CardMetaOut(deck, card_metadata) ==
    LET cards == DictKeys(List([i \in 1..(Len(deck.mainboard) + Len(deck.sideboard)) |->
                     IF i <= Len(deck.mainboard) THEN deck.mainboard[i][2]
                     ELSE deck.sideboard[i - Len(deck.mainboard)][2]]))
        known == SelectSeq(cards, LAMBDA c : Truthy(MetaGet(card_metadata, c)))
    IN  List([k \in DOMAIN known |->
            LET meta == MetaGet(card_metadata, known[k])
            IN  <<known[k],
                  [mana_cost |-> IF "mana_cost" \in DOMAIN meta THEN meta.mana_cost ELSE "",
                   cmc |-> IF "cmc" \in DOMAIN meta THEN meta.cmc ELSE 0,
                   type_line |-> IF "type_line" \in DOMAIN meta THEN meta.type_line ELSE "",
                   colors |-> IF "colors" \in DOMAIN meta THEN meta.colors ELSE <<>>]>>])

\* The rest of the dict that deck_analysis returns: the groupings of the
\* mainboard and of the sideboard, and card_meta.
deck_groupings(deck, card_metadata) ==
    LET main == BoardGroups(deck.mainboard, card_metadata)
        side == BoardGroups(deck.sideboard, card_metadata)
    IN  [grouped_by_type |-> main.by_type,
         grouped_by_type_sideboard |-> side.by_type,
         grouped_by_cmc |-> main.by_cmc,
         grouped_by_cmc_sideboard |-> side.by_cmc,
         grouped_by_color |-> main.by_color,
         grouped_by_color_sideboard |-> side.by_color,
         card_meta |-> CardMetaOut(deck, card_metadata)]

\* The table after a call that looked every card up with setdefault.
MetadataAfterSetdefault(deck, card_metadata) ==
    [c \in DOMAIN card_metadata \cup CardNames(deck.mainboard) \cup CardNames(deck.sideboard) |->
        MetaGet(card_metadata, c)]

\* The table after a call: deck_analysis reads it with get and writes to
\* local dicts only.
MetadataAfter(deck, card_metadata) == card_metadata

\* The decks of the composition analyzer with their sideboards.
SideboardPool ==
    {WithSideboard(d, sb) : d \in AnalysisPool,
                            sb \in {<<>>, << <<1, "Soul-Guide Lantern">> >>,
                                    << <<2, "Island">>, <<1, "Fire / Ice">>,
                                       <<1, "Spider-Man 2099">> >>}}

InitPure ==
    /\ \E d \in SideboardPool : decks = <<d>>
    /\ metadata \in MetadataPool
    /\ ignore_lands_cards_file = NoFile
    /\ result = NoResult
    /\ HandlersIdle

\* result = deck_analysis(deck, metadata), called again and again by one
\* caller on its deck and its table.
DeckAnalysisAgain(i) ==
    LET calls == IF result.op = "deck_analysis" THEN result.calls + 1 ELSE 1
    IN  /\ calls <= MaxCalls
        /\ result' = [op |-> "deck_analysis", deck |-> i, calls |-> calls,
                      out |-> deck_analysis(decks[i], metadata),
                      groups |-> deck_groupings(decks[i], metadata)]
        /\ metadata' = MetadataAfter(decks[i], metadata)
        /\ UNCHANGED <<decks, ignore_lands_cards_file, handler_state>>

NextPure == \E i \in DOMAIN decks : DeckAnalysisAgain(i)

SpecPure == InitPure /\ [][NextPure]_vars

\* ------------------------------------------------------- C21: purity

IsSpace(c) == c \in {" ", "\t", "\n"}

\* "".join(cs)
RECURSIVE Join(_)
Join(cs) == IF Len(cs) = 0 THEN "" ELSE Join(SubSeq(cs, 1, Len(cs) - 1)) \o cs[Len(cs)]

\* The last position of the run of whitespace that starts at i.
RECURSIVE SpaceRunEnd(_, _)
SpaceRunEnd(cs, i) ==
    IF i < Len(cs) /\ IsSpace(cs[i + 1]) THEN SpaceRunEnd(cs, i + 1) ELSE i

\* The last position of the match of \s+/\s+ that starts at i, 0 when there
\* is none.
SlashMatchEnd(cs, i) ==
    IF ~IsSpace(cs[i]) THEN 0
    ELSE LET e == SpaceRunEnd(cs, i)
         IN  IF e + 2 <= Len(cs) /\ cs[e + 1] = "/" /\ IsSpace(cs[e + 2])
             THEN SpaceRunEnd(cs, e + 2) ELSE 0

\* re.sub(r"\s+/\s+", " // ", name) from position i on: the matches are
\* taken from left to right and do not overlap.
RECURSIVE SubSlashFrom(_, _)
SubSlashFrom(cs, i) ==
    IF i > Len(cs) THEN <<>>
    ELSE IF SlashMatchEnd(cs, i) > 0
         THEN <<" ", "/", "/", " ">> \o SubSlashFrom(cs, SlashMatchEnd(cs, i) + 1)
         ELSE <<cs[i]>> \o SubSlashFrom(cs, i + 1)

\* re.search(r"\s/\s", name)
SearchSlash(cs) ==
    \E k \in 1..(Len(cs) - 2) : IsSpace(cs[k]) /\ cs[k + 1] = "/" /\ IsSpace(cs[k + 2])

\* The name stored without the substitution.
NormalizeNameNever(name) == name

\* _normalize_split_cards, for one card name.
NormalizeName(name) ==
    LET cs == Chars(name)
    IN  IF ~Contains(Chars(" // "), cs) /\ SearchSlash(cs)
        THEN Join(SubSlashFrom(cs, 1)) ELSE name

\* str.strip()
RECURSIVE StripChars(_)
StripChars(cs) ==
    IF Len(cs) > 0 /\ IsSpace(cs[1]) THEN StripChars(Tail(cs))
    ELSE IF Len(cs) > 0 /\ IsSpace(cs[Len(cs)]) THEN StripChars(SubSeq(cs, 1, Len(cs) - 1))
    ELSE cs

Digits == <<"0", "1", "2", "3", "4", "5", "6", "7", "8", "9">>

IsDigit(c) == \E k \in DOMAIN Digits : Digits[k] = c

\* int(digits)
RECURSIVE IntOf(_)
IntOf(cs) ==
    IF Len(cs) = 0 THEN 0
    ELSE 10 * IntOf(SubSeq(cs, 1, Len(cs) - 1))
           + (CHOOSE k \in DOMAIN Digits : Digits[k] = cs[Len(cs)]) - 1

\* The last position of the run of digits that starts at i.
RECURSIVE DigitRunEnd(_, _)
DigitRunEnd(cs, i) ==
    IF i < Len(cs) /\ IsDigit(cs[i + 1]) THEN DigitRunEnd(cs, i + 1) ELSE i

\* _parse_card_line(line): (qty, card_name) when the stripped line matches
\* ^(\d+)\s+(.+)$, with the slashes of the name substituted; else None.
_parse_card_line(line) ==
    LET cs == StripChars(Chars(line))
    IN  IF Len(cs) = 0 \/ ~IsDigit(cs[1]) THEN [parsed |-> FALSE]
        ELSE LET d == DigitRunEnd(cs, 1)
             IN  IF d + 2 > Len(cs) \/ ~IsSpace(cs[d + 1]) THEN [parsed |-> FALSE]
                 ELSE LET e == SpaceRunEnd(cs, d + 1)
                          rest == StripChars(SubSeq(cs, e + 1, Len(cs)))
                      IN  [parsed |-> TRUE, qty |-> IntOf(SubSeq(cs, 1, d)),
                           card |-> Join(SubSlashFrom(rest, 1))]

\* --------------------------------------------------- loading the collection

\* Bound on the number of decks of a loaded or scraped list.
MaxLoadDecks == 2

\* A mainboard or sideboard entry of a deck dict: {"qty": qty, "card": card}.
CardEntry(qty, card) == [qty |-> qty, card |-> card]

\* A deck dict, with the fields that loading reads.
DeckDict(deck_id, mainboard, sideboard) ==
    [deck_id |-> deck_id, mainboard |-> mainboard, sideboard |-> sideboard]

\* The entries of a board with NormalizeName applied to each card name.
NormalizeBoard(cards) ==
    List([k \in DOMAIN cards |-> CardEntry(cards[k].qty, NormalizeName(cards[k].card))])

\* _normalize_split_cards(decks)
_normalize_split_cards(ds) ==
    List([i \in DOMAIN ds |->
        DeckDict(ds[i].deck_id, NormalizeBoard(ds[i].mainboard),
                 NormalizeBoard(ds[i].sideboard))])

\* Deck dicts as a file or a request body holds them: split cards written
\* with one slash, with two, with wider spacing, and without spaces.
LoadDeckPool ==
    { DeckDict(999, <<CardEntry(1, "Fire / Ice"), CardEntry(1, "Lightning Bolt")>>,
                    <<CardEntry(1, "Life / Death")>>),
      DeckDict(1, <<CardEntry(1, "Fire // Ice")>>, <<CardEntry(2, "Wear  /  Tear")>>),
      DeckDict(2, <<CardEntry(4, "Lightning Bolt"), CardEntry(1, "Fire/Ice")>>, <<>>) }

\* Lists of distinct decks of the pool.
LoadLists ==
    UNION {{List(ds) : ds \in {f \in [1..n -> LoadDeckPool] :
                                  \A i, j \in 1..n : f[i] = f[j] => i = j}} :
           n \in 0..MaxLoadDecks}

\* What a path names, or what an upload holds: nothing, text that is not
\* JSON, JSON that is not a list of deck dicts, or a list of deck dicts.
NoSuchFile == [exists |-> FALSE]

FilePool ==
    {NoSuchFile, [exists |-> TRUE, json |-> FALSE],
     [exists |-> TRUE, json |-> TRUE, records |-> FALSE]}
      \cup {[exists |-> TRUE, json |-> TRUE, records |-> TRUE, value |-> ds] : ds \in LoadLists}

\* The body of POST /api/load: absent, or decks and path, each possibly None.
NoBody == [given |-> FALSE]

BodyPool ==
    {NoBody, [given |-> TRUE, has_decks |-> FALSE, has_path |-> FALSE]}
      \cup {[given |-> TRUE, has_decks |-> TRUE, decks |-> ds, has_path |-> FALSE] :
                ds \in LoadLists}
      \cup {[given |-> TRUE, has_decks |-> FALSE, has_path |-> TRUE, file |-> f] :
                f \in FilePool}

\* The requests to POST /api/load: an upload alone, a body alone, and an
\* upload together with a body.
RequestPool ==
    {[body |-> NoBody, file |-> f] : f \in FilePool}
      \cup {[body |-> b, file |-> NoSuchFile] : b \in BodyPool}
      \cup {[body |-> [given |-> TRUE, has_decks |-> TRUE, decks |-> <<>>, has_path |-> FALSE],
             file |-> f] : f \in FilePool}

\* A load that empties the collection before it looks at the request.
LoadOutcomeClearing(old, body, file) ==
    IF file.exists /\ file.json /\ file.records
    THEN [status |-> 200, decks |-> _normalize_split_cards(file.value)]
    ELSE [status |-> 400, decks |-> <<>>]

\* What POST /api/load does to _decks and answers: the new collection and
\* the status.  A file wins over a body, decks over a path; text that is
\* not JSON answers 400, a path that names nothing 404, and JSON that
\* _normalize_split_cards or json.load cannot handle raises (500) before
\* _decks is assigned.
LoadOutcome(old, body, file) ==
    IF file.exists
    THEN IF ~file.json THEN [status |-> 400, decks |-> old]
         ELSE IF ~file.records THEN [status |-> 500, decks |-> old]
         ELSE [status |-> 200, decks |-> _normalize_split_cards(file.value)]
    ELSE IF body.given
    THEN IF body.has_decks
         THEN [status |-> 200, decks |-> _normalize_split_cards(body.decks)]
         ELSE IF body.has_path
         THEN IF ~body.file.exists THEN [status |-> 404, decks |-> old]
              ELSE IF ~body.file.json \/ ~body.file.records
                   THEN [status |-> 500, decks |-> old]
              ELSE [status |-> 200, decks |-> _normalize_split_cards(body.file.value)]
         ELSE [status |-> 400, decks |-> old]
    ELSE [status |-> 400, decks |-> old]

\* The pages of a scraped deck: its card lines, as the site shows them.
ScrapedPool ==
    { [deck_id |-> 5, main_lines |-> <<"1 Fire / Ice", "2 Lightning Bolt", "LANDS">>,
                      side_lines |-> <<"1 Fire // Ice">>],
      [deck_id |-> 6, main_lines |-> <<"  3  Wear  /  Tear ", "12 Fire/Ice">>,
                      side_lines |-> <<"x Fire / Ice">>] }

ScrapedLists ==
    UNION {{List(ds) : ds \in {f \in [1..n -> ScrapedPool] :
                                  \A i, j \in 1..n : f[i] = f[j] => i = j}} :
           n \in 0..MaxLoadDecks}

\* The entries that scrape_deck_robust takes from card lines: the lines that
\* _parse_card_line parses, in order.
ParsedBoard(lines) ==
    LET parsed == SelectSeq(List([k \in DOMAIN lines |-> _parse_card_line(lines[k])]),
                            LAMBDA r : r.parsed)
    IN  List([k \in DOMAIN parsed |-> CardEntry(parsed[k].qty, parsed[k].card)])

\* [d.to_dict() for d in decks] of the decks that scrape returns.
ScrapedDicts(pages) ==
    List([i \in DOMAIN pages |->
        DeckDict(pages[i].deck_id, ParsedBoard(pages[i].main_lines),
                 ParsedBoard(pages[i].side_lines))])

\* _decks = [] and the load of decks.json at startup, when it is there and
\* loads.
InitLoad ==
    /\ \E f \in FilePool :
          decks = LoadOutcome(<<>>, [given |-> TRUE, has_decks |-> FALSE,
                                     has_path |-> TRUE, file |-> f], NoSuchFile).decks
    /\ ignore_lands_cards_file = NoFile
    /\ result = NoResult
    /\ OtherStateIdle

\* POST /api/load.  result keeps the request.
LoadDecks(admin, body, file) ==
    IF ~admin
    THEN /\ result' = [op |-> "load_decks", status |-> 401, body |-> body,
                       file |-> file]
         /\ UNCHANGED <<decks, ignore_lands_cards_file, other_state>>
    ELSE LET o == LoadOutcome(decks, body, file)
         IN  /\ decks' = o.decks
             /\ result' = [op |-> "load_decks", status |-> o.status, body |-> body,
                           file |-> file]
             /\ UNCHANGED <<ignore_lands_cards_file, other_state>>

\* POST /api/scrape, from the request to the end of its event stream on the
\* path that ends with done.
ScrapeDone(pages) ==
    /\ decks' = ScrapedDicts(pages)
    /\ result' = [op |-> "run_scrape", status |-> 200, pages |-> pages]
    /\ UNCHANGED <<ignore_lands_cards_file, other_state>>

NextLoad ==
    \/ \E admin \in BOOLEAN, r \in RequestPool : LoadDecks(admin, r.body, r.file)
    \/ \E pages \in ScrapedLists : ScrapeDone(pages)

SpecLoad == InitLoad /\ [][NextLoad]_vars

\* The card names of a list of deck dicts, mainboards and sideboards, as a
\* list of lists.
BoardNames(cards) == List([k \in DOMAIN cards |-> cards[k].card])

NamesOf(ds) ==
    List([i \in DOMAIN ds |-> <<BoardNames(ds[i].mainboard), BoardNames(ds[i].sideboard)>>])

\* The single-slash split names of the inputs and the form the specification
\* gives each.
SingleSlashNames == {"Fire / Ice", "Life / Death", "Wear  /  Tear"}

ClaimedName(name) ==
    CASE name = "Fire / Ice" -> "Fire // Ice"
      [] name = "Life / Death" -> "Life // Death"
      [] name = "Wear  /  Tear" -> "Wear // Tear"
      [] OTHER -> name

ClaimedNames(ds) ==
    List([i \in DOMAIN ds |->
        <<List([k \in DOMAIN ds[i].mainboard |-> ClaimedName(ds[i].mainboard[k].card)]),
          List([k \in DOMAIN ds[i].sideboard |-> ClaimedName(ds[i].sideboard[k].card)])>>])

\* The card names the specification expects from the card lines of a page.
ClaimedLineNames(lines) ==
    IF lines = <<"1 Fire / Ice", "2 Lightning Bolt", "LANDS">>
    THEN <<"Fire // Ice", "Lightning Bolt">>
    ELSE IF lines = <<"1 Fire // Ice">> THEN <<"Fire // Ice">>
    ELSE IF lines = <<"  3  Wear  /  Tear ", "12 Fire/Ice">> THEN <<"Wear // Tear", "Fire/Ice">>
    ELSE <<>>

\* The list of decks that a successful request put into the collection.
LoadedInput ==
    IF result.file.exists THEN result.file.value
    ELSE IF result.body.has_decks THEN result.body.decks
    ELSE result.body.file.value

CollectionNames ==
    UNION {{decks[i].mainboard[k].card : k \in DOMAIN decks[i].mainboard}
             \cup {decks[i].sideboard[k].card : k \in DOMAIN decks[i].sideboard} :
           i \in DOMAIN decks}

\* C22: after any sequence of loads and scrapes no card name of the
\* collection is a single-slash split name; every loaded or scraped
\* "A / B" is in the collection as "A // B" and every other name as it
\* came; normalising the collection again changes nothing.
C22_SplitNamesNormalized ==
    /\ CollectionNames \cap SingleSlashNames = {}
    /\ _normalize_split_cards(decks) = decks
    /\ (result.op = "load_decks" /\ result.status = 200)
          => NamesOf(decks) = ClaimedNames(LoadedInput)
    /\ result.op = "run_scrape"
          => NamesOf(decks) =
               List([i \in DOMAIN result.pages |->
                   <<ClaimedLineNames(result.pages[i].main_lines),
                     ClaimedLineNames(result.pages[i].side_lines)>>])

\* A load of a deck with "Fire / Ice" in the mainboard and "Life / Death" in
\* the sideboard stored both with two slashes, next to "Lightning Bolt".
C22_Witness ==
    /\ result.op = "load_decks" /\ result.status = 200
    /\ \E i \in DOMAIN LoadedInput :
          /\ \E k \in DOMAIN LoadedInput[i].mainboard :
                LoadedInput[i].mainboard[k].card = "Fire / Ice"
          /\ \E k \in DOMAIN LoadedInput[i].sideboard :
                LoadedInput[i].sideboard[k].card = "Life / Death"
    /\ {"Fire // Ice", "Life // Death", "Lightning Bolt"} \subseteq CollectionNames

\* The requests that the specification lists as failed loads: an upload that
\* is not valid JSON, a path that does not exist, a body with neither decks
\* nor path, and no body and no file.
ClaimedFailedLoad(body, file) ==
    \/ file.exists /\ ~file.json
    \/ ~file.exists /\ body.given /\ ~body.has_decks /\ body.has_path /\ ~body.file.exists
    \/ ~file.exists /\ body.given /\ ~body.has_decks /\ ~body.has_path
    \/ ~file.exists /\ ~body.given

\* C24: a load replaces the collection as a whole or not at all: after a
\* successful load the collection is exactly the loaded records, and after
\* a failed load (upload that is not valid JSON, missing path, body with
\* neither decks nor path, no body and no file) it is exactly as before.
C24_ReplacedAsAWhole ==
    [][result'.op = "load_decks" =>
          /\ result'.status = 200 =>
                /\ Len(decks') = Len(LoadedInput')
                /\ \A i \in DOMAIN decks' :
                      /\ decks'[i].deck_id = LoadedInput'[i].deck_id
                      /\ Len(decks'[i].mainboard) = Len(LoadedInput'[i].mainboard)
                      /\ Len(decks'[i].sideboard) = Len(LoadedInput'[i].sideboard)
                      /\ \A k \in DOMAIN decks'[i].mainboard :
                            decks'[i].mainboard[k].qty = LoadedInput'[i].mainboard[k].qty
                      /\ \A k \in DOMAIN decks'[i].sideboard :
                            decks'[i].sideboard[k].qty = LoadedInput'[i].sideboard[k].qty
                /\ NamesOf(decks') = ClaimedNames(LoadedInput')
          /\ result'.status # 200 => decks' = decks
          /\ (result'.status # 401 /\ ClaimedFailedLoad(result'.body, result'.file))
                => result'.status \in {400, 404} /\ decks' = decks]_vars

\* A request for a path that does not exist was answered with 404 and the
\* collection still holds the two decks it held.
C24_Witness ==
    /\ result.op = "load_decks" /\ result.status = 404
    /\ ClaimedFailedLoad(result.body, result.file)
    /\ Len(decks) = 2

\* -------------------------------------------------------- the date filter

\* Bound on the number of decks of the filtered list.
MaxDateDecks == 2

\* date_str.split("/")
RECURSIVE SplitSlash(_)
SplitSlash(cs) ==
    IF \A k \in DOMAIN cs : cs[k] # "/" THEN <<cs>>
    ELSE LET k == CHOOSE j \in DOMAIN cs : cs[j] = "/" /\ \A h \in 1..(j - 1) : cs[h] # "/"
         IN  <<SubSeq(cs, 1, k - 1)>> \o SplitSlash(SubSeq(cs, k + 1, Len(cs)))

\* _parse_date_sortkey(date_str), as characters
_parse_date_sortkey(date_str) ==
    LET parts == SplitSlash(Chars(date_str))
    IN  IF Len(parts) = 3 THEN parts[3] \o parts[2] \o parts[1] ELSE Chars(date_str)

\* str.isdigit()
IsDigitString(cs) == Len(cs) > 0 /\ \A k \in DOMAIN cs : IsDigit(cs[k])

\* An optional query parameter: None or a string.
NoParam == [given |-> FALSE]

Some(s) == [given |-> TRUE, value |-> s]

\* if date_from: -- the parameter is given and not empty.
TruthyParam(p) == p.given /\ p.value # ""

\* A range test that leaves out the two bounds themselves.
_date_in_rangeExclusive(date_str, date_from, date_to) ==
    LET key == _parse_date_sortkey(date_str)
    IN  IF ~IsDigitString(key) THEN TRUE
        ELSE IF /\ TruthyParam(date_from)
                /\ IsDigitString(_parse_date_sortkey(date_from.value))
                /\ IntOf(key) <= IntOf(_parse_date_sortkey(date_from.value))
        THEN FALSE
        ELSE IF /\ TruthyParam(date_to)
                /\ IsDigitString(_parse_date_sortkey(date_to.value))
                /\ IntOf(key) >= IntOf(_parse_date_sortkey(date_to.value))
        THEN FALSE
        ELSE TRUE

\* _date_in_range(date_str, date_from, date_to)
_date_in_range(date_str, date_from, date_to) ==
    LET key == _parse_date_sortkey(date_str)
    IN  IF ~IsDigitString(key) THEN TRUE
        ELSE IF /\ TruthyParam(date_from)
                /\ IsDigitString(_parse_date_sortkey(date_from.value))
                /\ IntOf(key) < IntOf(_parse_date_sortkey(date_from.value))
        THEN FALSE
        ELSE IF /\ TruthyParam(date_to)
                /\ IsDigitString(_parse_date_sortkey(date_to.value))
                /\ IntOf(key) > IntOf(_parse_date_sortkey(date_to.value))
        THEN FALSE
        ELSE TRUE

\* _filter_decks_by_date(decks, date_from, date_to)
_filter_decks_by_date(ds, date_from, date_to) ==
    IF ~TruthyParam(date_from) /\ ~TruthyParam(date_to) THEN ds
    ELSE SelectSeq(ds, LAMBDA d : _date_in_range(d.date, date_from, date_to))

\* Dates of decks: well-formed ones around February 2026 and across the
\* turn of the year, and strings that are no DD/MM/YY date.
DeckDates ==
    {"31/12/25", "01/02/26", "15/02/26", "28/02/26", "01/03/26", "invalid", ""}

\* Values of the date_from and date_to parameters.
DateParams ==
    {NoParam, Some(""), Some("01/02/26"), Some("15/02/26"), Some("28/02/26"),
     Some("2026-02-01")}

DatedLists ==
    UNION {{List([i \in 1..n |-> [deck_id |-> i, date |-> f[i]]]) : f \in [1..n -> DeckDates]} :
           n \in 0..MaxDateDecks}

InitDate ==
    /\ decks \in DatedLists
    /\ ignore_lands_cards_file = NoFile
    /\ result = NoResult
    /\ OtherStateIdle

\* The filter of GET /api/players and GET /api/metagame.
FilterDecksByDate(date_from, date_to) ==
    /\ result' = [op |-> "filter_decks_by_date", date_from |-> date_from,
                  date_to |-> date_to,
                  kept |-> _filter_decks_by_date(decks, date_from, date_to)]
    /\ UNCHANGED <<decks, ignore_lands_cards_file, other_state>>

NextDate == \E date_from, date_to \in DateParams : FilterDecksByDate(date_from, date_to)

SpecDate == InitDate /\ [][NextDate]_vars

\* The place of a well-formed date in the calendar, 0 for a string that is
\* no DD/MM/YY date.
ClaimedDay(date) ==
    CASE date = "31/12/25" -> 1
      [] date = "01/02/26" -> 3
      [] date = "15/02/26" -> 4
      [] date = "28/02/26" -> 5
      [] date = "01/03/26" -> 6
      [] OTHER -> 0

\* A bound that is absent or a well-formed date.
ClaimedBound(p) == ~TruthyParam(p) \/ ClaimedDay(p.value) > 0

\* The decks that the specification keeps.
ClaimedKept(d, date_from, date_to) ==
    \/ ClaimedDay(d.date) = 0
    \/ /\ TruthyParam(date_from) => ClaimedDay(date_from.value) <= ClaimedDay(d.date)
       /\ TruthyParam(date_to) => ClaimedDay(d.date) <= ClaimedDay(date_to.value)

\* C23: the date filter keeps, in order, exactly the decks whose date is
\* no DD/MM/YY date or lies between date_from and date_to, both included;
\* an absent bound does not restrict and with neither bound every deck is
\* kept.
C23_KeptExactlyWithinRange ==
    (result.op = "filter_decks_by_date" /\ ClaimedBound(result.date_from)
       /\ ClaimedBound(result.date_to))
      => /\ result.kept = SelectSeq(decks, LAMBDA d :
                              ClaimedKept(d, result.date_from, result.date_to))
         /\ (~TruthyParam(result.date_from) /\ ~TruthyParam(result.date_to))
               => result.kept = decks

\* With the range 01/02/26 to 28/02/26 a deck dated on the upper bound was
\* kept and a deck dated 01/03/26 was dropped.
C23_Witness ==
    /\ result.op = "filter_decks_by_date"
    /\ result.date_from = Some("01/02/26") /\ result.date_to = Some("28/02/26")
    /\ Len(decks) = 2 /\ decks[1].date = "28/02/26" /\ decks[2].date = "01/03/26"
    /\ result.kept = <<decks[1]>>

\* ------------------------------------- read requests during a replacement

\* A deck dict of the collection: id, player and mainboard.
StoredDeck(id, player, mainboard) == Deck(id, "1", player, <<>>, None, mainboard)

BoltDeck == << <<1, "Sol Ring">>, <<2, "Lightning Bolt">> >>

BoltDeckReordered == << <<2, "Lightning Bolt">>, <<1, "Sol Ring">> >>

RingDeck == << <<2, "Sol Ring">>, <<1, "Lightning Bolt">> >>

\* Collections that a load or a scrape can put in place: with and without
\* decks of the same mainboard, sharing ids and not.
CollectionPool ==
    { <<>>,
      <<StoredDeck(1, "Alice", BoltDeck)>>,
      <<StoredDeck(1, "Alice", BoltDeck), StoredDeck(2, "Bob", BoltDeckReordered)>>,
      <<StoredDeck(1, "Alice", BoltDeck), StoredDeck(2, "Bob", RingDeck)>>,
      <<StoredDeck(2, "Bob", BoltDeck), StoredDeck(1, "Ann", BoltDeck)>>,
      <<StoredDeck(1, "Ann", RingDeck), StoredDeck(3, "Carol", RingDeck)>> }

\* The deck ids of the requests.
RequestIds == {1, 2, 3}

NoRequest == [pc |-> "idle"]

\* _deck_duplicate_info(deck_id) over the collection ds: the first item of
\* the duplicate map that holds the id, as primary or among the others;
\* None is [found |-> FALSE], and duplicate_of = None is the field left out.
_deck_duplicate_info(ds, deck_id) ==
    LET dup_map == find_duplicate_decks(ds)
        hits == SelectSeq(dup_map, LAMBDA e :
                    e.primary = deck_id \/ \E k \in DOMAIN e.duplicates : e.duplicates[k] = deck_id)
    IN  IF Len(hits) = 0 THEN [found |-> FALSE]
        ELSE IF hits[1].primary = deck_id
        THEN [found |-> TRUE, is_duplicate |-> FALSE, same_mainboard_ids |-> hits[1].duplicates]
        ELSE [found |-> TRUE, is_duplicate |-> TRUE, duplicate_of |-> hits[1].primary,
              same_mainboard_ids |-> SelectSeq(hits[1].duplicates, LAMBDA x : x # deck_id)]

\* deck_map.get(did, {}): the last deck of ds with the id, or the empty dict.
DeckMapGet(ds, did) ==
    LET at == SelectSeq(List([i \in DOMAIN ds |-> i]), LAMBDA i : ds[i].deck_id = did)
    IN  IF Len(at) = 0 THEN [found |-> FALSE]
        ELSE [found |-> TRUE, player |-> ds[at[Len(at)]].player]

\* The rows of list_duplicate_decks for a duplicate map, resolved in ds.
DuplicateRows(dup_map, ds) ==
    List([g \in DOMAIN dup_map |->
        [primary_deck_id |-> dup_map[g].primary,
         primary |-> DeckMapGet(ds, dup_map[g].primary),
         duplicate_deck_ids |-> dup_map[g].duplicates,
         duplicates |-> List([k \in DOMAIN dup_map[g].duplicates |->
                            DeckMapGet(ds, dup_map[g].duplicates[k])])]])

InitSnapshot ==
    /\ decks \in CollectionPool
    /\ ignore_lands_cards_file = NoFile
    /\ result = NoResult
    /\ metadata = <<>>
    /\ request = NoRequest
    /\ _player_aliases = <<>>
    /\ queue = <<>>
    /\ scraper = <<>>
    /\ stream = <<>>
    /\ events = <<>>
    /\ fetch = <<>>

snapshot_rest == <<ignore_lands_cards_file, metadata, _player_aliases, queue, scraper,
                   stream, events, fetch>>

\* get_deck, up to the call of _deck_duplicate_info: the loop over _decks
\* finds the deck, or ends with 404.
GetDeckFind(deck_id) ==
    /\ request.pc = "idle"
    /\ LET at == SelectSeq(List([i \in DOMAIN decks |-> i]),
                           LAMBDA i : decks[i].deck_id = deck_id)
       IN  IF Len(at) = 0
           THEN /\ result' = [op |-> "get_deck", status |-> 404, deck_id |-> deck_id]
                /\ UNCHANGED request
           ELSE /\ request' = [pc |-> "get_deck", deck_id |-> deck_id,
                               out |-> decks[at[1]], read |-> decks]
                /\ UNCHANGED result
    /\ UNCHANGED <<decks, snapshot_rest>>

\* get_deck, from the call of _deck_duplicate_info, which reads _decks
\* again, to the return.
GetDeckDuplicateInfo ==
    /\ request.pc = "get_deck"
    /\ result' = [op |-> "get_deck", status |-> 200, deck_id |-> request.deck_id,
                  out |-> request.out,
                  duplicate_info |-> _deck_duplicate_info(decks, request.deck_id),
                  deck_from |-> request.read, info_from |-> decks]
    /\ request' = NoRequest
    /\ UNCHANGED <<decks, snapshot_rest>>

\* list_duplicate_decks without event_ids, up to the duplicate map of the
\* candidate list.
ListDuplicatesMap ==
    /\ request.pc = "idle"
    /\ request' = [pc |-> "list_duplicate_decks", dup_map |-> find_duplicate_decks(decks),
                   read |-> decks]
    /\ UNCHANGED <<decks, result, snapshot_rest>>

\* list_duplicate_decks, from deck_map, which reads _decks again, to the
\* return.
ListDuplicatesResolve ==
    /\ request.pc = "list_duplicate_decks"
    /\ result' = [op |-> "list_duplicate_decks",
                  duplicates |-> DuplicateRows(request.dup_map, decks),
                  map_from |-> request.read, resolved_from |-> decks]
    /\ request' = NoRequest
    /\ UNCHANGED <<decks, snapshot_rest>>

\* _decks = ... of load_decks, _load_from_file and event_stream, on another
\* thread.
ReplaceCollection(new) ==
    /\ decks' = new
    /\ UNCHANGED <<result, request, snapshot_rest>>

NextSnapshot ==
    \/ \E deck_id \in RequestIds : GetDeckFind(deck_id)
    \/ GetDeckDuplicateInfo
    \/ ListDuplicatesMap
    \/ ListDuplicatesResolve
    \/ \E new \in CollectionPool : ReplaceCollection(new)

SpecSnapshot == InitSnapshot /\ [][NextSnapshot]_vars

\* C25: a read request answers from one snapshot of the collection: the
\* duplicate_info of GET /api/decks/{id} is that of the collection the deck
\* was taken from, and every row of GET /api/decks/duplicates resolves its
\* ids to the decks of the collection the duplicate map was computed from.
C25_OneSnapshot ==
    /\ (result.op = "get_deck" /\ result.status = 200)
          => result.duplicate_info = _deck_duplicate_info(result.deck_from, result.deck_id)
    /\ result.op = "list_duplicate_decks"
          => \A g \in DOMAIN result.duplicates :
                LET row == result.duplicates[g]
                IN  /\ row.primary = DeckMapGet(result.map_from, row.primary_deck_id)
                    /\ \A k \in DOMAIN row.duplicates :
                          row.duplicates[k] = DeckMapGet(result.map_from, row.duplicate_deck_ids[k])

\* ------------------------------------------------ the scrape event stream

\* Bounds on the events of a scrape and on the decks of one event.
MaxEvents == 2

MaxEventDecks == 2

\* The messages that scrape() hands to on_progress, by the pattern of
\* event_stream that matches them, with the numbers they carry; NoneMessage
\* is the None that run_scraper puts last.
FetchingMessage == [kind |-> "Fetching events from format page..."]

FoundEventsMessage(n) == [kind |-> "Found n events", n |-> n]

EventMessage(i, n) == [kind |-> "[i/n] Fetching decks from ...", i |-> i, n |-> n]

FoundDecksMessage(n) == [kind |-> "  Found n decks", n |-> n]

ParsingMessage(j, n) == [kind |-> "  Parsing deck j/n (id=...)...", i |-> j, n |-> n]

DoneMessage == [kind |-> "Done. Total: ..."]

NoneMessage == [kind |-> "None"]

\* The messages of one event with k decks, the i-th of n.
EventMessages(i, n, k) ==
    <<EventMessage(i, n), FoundDecksMessage(k)>> \o List([j \in 1..k |-> ParsingMessage(j, k)])

\* The messages of scrape() for a plan: the deck count of each event, and
\* whether the request named the events itself.
ScrapeMessages(plan, event_ids) ==
    (IF event_ids THEN <<>> ELSE <<FetchingMessage, FoundEventsMessage(Len(plan))>>)
      \o ConcatAll(List([i \in DOMAIN plan |-> EventMessages(i, Len(plan), plan[i])]))
      \o <<DoneMessage>>

\* [d.to_dict() for d in decks] of the decks that scrape() returns.
ScrapedDecks(plan) ==
    ConcatAll(List([i \in DOMAIN plan |->
        List([j \in 1..plan[i] |-> StoredDeck(10 * i + j, "Scraped", BoltDeck)])]))

Plans == UNION {[1..n -> 0..MaxEventDecks] : n \in 0..MaxEvents}

\* The collection before the scrape.
PriorCollection == <<StoredDeck(1, "Alice", BoltDeck), StoredDeck(2, "Bob", RingDeck)>>

\* min(pct, 99) and round(pct, 1), in tenths, for pct = 100 * num / den.
CappedPct(num, den) == IF 100 * num >= 99 * den THEN 990 ELSE Round1(1000 * num, den)

\* The pct of a progress event, in tenths, from the locals of event_stream.
ProgressPct(s) ==
    IF s.total_events > 0
    THEN IF s.current_event > 0
         THEN IF s.total_decks_in_event > 0
              THEN CappedPct((s.current_event - 1) * s.total_decks_in_event
                               + s.current_deck_in_event,
                             s.total_events * s.total_decks_in_event)
              ELSE CappedPct(s.current_event - 1, s.total_events)
         ELSE 0
    ELSE 0

\* The locals of event_stream after the four patterns were tried on msg.
AfterMessage(s, msg) ==
    CASE msg.kind = "Found n events" -> [s EXCEPT !.total_events = msg.n]
      [] msg.kind = "[i/n] Fetching decks from ..." ->
             [s EXCEPT !.current_event = msg.i, !.total_events = msg.n]
      [] msg.kind = "  Found n decks" ->
             [s EXCEPT !.total_decks_in_event = msg.n, !.current_deck_in_event = 0]
      [] msg.kind = "  Parsing deck j/n (id=...)..." ->
             [s EXCEPT !.current_deck_in_event = msg.i, !.total_decks_in_event = msg.n]
      [] OTHER -> s

\* An end of the stream that stores whatever the scraper has collected.
StreamEndStoring(old, error_holder, result_holder) ==
    IF Len(result_holder) > 0
    THEN [event |-> [type |-> "done", loaded |-> Len(result_holder[1]), pct |-> 1000],
          decks |-> result_holder[1]]
    ELSE [event |-> [type |-> "error", message |-> "Unknown error"], decks |-> <<>>]

\* event_stream after the loop: the terminal event and the collection.
StreamEnd(old, error_holder, result_holder) ==
    IF Len(error_holder) > 0
    THEN [event |-> [type |-> "error", message |-> error_holder[1]], decks |-> old]
    ELSE IF Len(result_holder) > 0
    THEN [event |-> [type |-> "done", loaded |-> Len(result_holder[1]), pct |-> 1000],
          decks |-> result_holder[1]]
    ELSE [event |-> [type |-> "error", message |-> "Unknown error"], decks |-> old]

\* run_scrape up to the return of the StreamingResponse: the thread is
\* started and event_stream has not run yet.  A request that names the
\* events names at least one (an empty list counts as none given).
InitScrape ==
    /\ decks = PriorCollection
    /\ ignore_lands_cards_file = NoFile
    /\ result = NoResult
    /\ metadata = <<>>
    /\ request = <<>>
    /\ _player_aliases = <<>>
    /\ fetch = <<>>
    /\ queue = <<>>
    /\ \E plan \in Plans, event_ids \in BOOLEAN :
          /\ event_ids => Len(plan) > 0
          /\ scraper = [pc |-> "scrape", plan |-> plan, event_ids |-> event_ids, sent |-> 0,
                     result_holder |-> <<>>, error_holder |-> <<>>]
    /\ stream = [pc |-> "loop", total_events |-> 0, current_event |-> 0,
                 total_decks_in_event |-> 0, current_deck_in_event |-> 0]
    /\ events = <<>>

scrape_rest == <<ignore_lands_cards_file, result, metadata, request, _player_aliases, fetch>>

\* scrape(): the next on_progress(msg), that is q.put(msg).
ScraperProgress ==
    /\ scraper.pc = "scrape"
    /\ scraper.sent < Len(ScrapeMessages(scraper.plan, scraper.event_ids))
    /\ queue' = Append(queue, ScrapeMessages(scraper.plan, scraper.event_ids)[scraper.sent + 1])
    /\ scraper' = [scraper EXCEPT !.sent = @ + 1]
    /\ UNCHANGED <<decks, stream, events, scrape_rest>>

\* scrape() returns: result_holder.append(decks), then q.put(None).
ScraperReturn ==
    /\ scraper.pc = "scrape"
    /\ scraper.sent = Len(ScrapeMessages(scraper.plan, scraper.event_ids))
    /\ scraper' = [scraper EXCEPT !.pc = "returned",
                                  !.result_holder = <<ScrapedDecks(scraper.plan)>>]
    /\ queue' = Append(queue, NoneMessage)
    /\ UNCHANGED <<decks, stream, events, scrape_rest>>

\* scrape() raises (a page could not be fetched or parsed):
\* error_holder.append(str(e)), then q.put(None).
ScraperRaise ==
    /\ scraper.pc = "scrape"
    /\ scraper' = [scraper EXCEPT !.pc = "raised", !.error_holder = <<"error">>]
    /\ queue' = Append(queue, NoneMessage)
    /\ UNCHANGED <<decks, stream, events, scrape_rest>>

\* event_stream: q.get returns a message; a progress event for a str, the
\* end of the loop and the terminal event for None.
StreamGet ==
    /\ stream.pc = "loop"
    /\ Len(queue) > 0
    /\ queue' = Tail(queue)
    /\ IF Head(queue) = NoneMessage
       THEN LET end == StreamEnd(decks, scraper.error_holder, scraper.result_holder)
            IN  /\ events' = Append(events, end.event)
                /\ decks' = end.decks
                /\ stream' = [stream EXCEPT !.pc = "ended"]
       ELSE LET s == AfterMessage(stream, Head(queue))
            IN  /\ stream' = s
                /\ events' = Append(events, [type |-> "progress", message |-> Head(queue),
                                             pct |-> ProgressPct(s)])
                /\ decks' = decks
    /\ UNCHANGED <<scraper, scrape_rest>>

\* event_stream: q.get(timeout=300) raises queue.Empty.
StreamTimeout ==
    /\ stream.pc = "loop"
    /\ Len(queue) = 0
    /\ events' = Append(events, [type |-> "error", message |-> "Timeout"])
    /\ stream' = [stream EXCEPT !.pc = "ended"]
    /\ UNCHANGED <<decks, queue, scraper, scrape_rest>>

NextScrape ==
    \/ ScraperProgress
    \/ ScraperReturn
    \/ ScraperRaise
    \/ StreamGet
    \/ StreamTimeout

SpecScrape == InitScrape /\ [][NextScrape]_vars

\* The response keeps being read: every q.get of event_stream returns or
\* times out.
SpecScrapeLive == SpecScrape /\ WF_vars(StreamGet \/ StreamTimeout)

\* A done or error event.
IsTerminal(e) == e.type \in {"done", "error"}

StreamEnded == stream.pc = "ended"

LastEvent == events[Len(events)]

\* What C26 says of a state of the stream: a terminal event is the last
\* event and the stream has ended with it; done goes with the collection of
\* the scraped decks, every other state with the collection as it was.
C26_TerminalState ==
    /\ \A k \in DOMAIN events : IsTerminal(events[k]) => k = Len(events) /\ StreamEnded
    /\ StreamEnded => Len(events) > 0 /\ IsTerminal(LastEvent)
    /\ (StreamEnded /\ LastEvent.type = "done")
          => /\ scraper.pc = "returned"
             /\ decks = ScrapedDecks(scraper.plan)
             /\ LastEvent.loaded = Len(decks)
    /\ (~StreamEnded \/ LastEvent.type = "error") => decks = PriorCollection
    /\ (StreamEnded /\ scraper.pc = "raised") => LastEvent.type = "error"
    /\ (StreamEnded /\ scraper.pc = "scrape") => LastEvent = [type |-> "error", message |-> "Timeout"]

\* C26: the stream always ends, with exactly one terminal event, done or
\* error, and nothing after it; the collection is replaced, by exactly the
\* scraped decks, only on the path that emits done; when the scraper raised
\* or no message arrived in time the stream ends with error and the
\* collection is as it was.
C26_OneTerminalEvent == []C26_TerminalState /\ <>StreamEnded

\* A scrape of two events ended with done after its progress events and the
\* collection holds the three scraped decks.
C26_Witness ==
    /\ StreamEnded /\ LastEvent.type = "done"
    /\ scraper.plan = <<2, 1>>
    /\ Len(events) = Len(ScrapeMessages(scraper.plan, scraper.event_ids)) + 1
    /\ Len(decks) = 3 /\ decks # PriorCollection

\* C27: the pct of successive progress events never decreases and stays
\* within 0..99; only the final done event carries 100.
C27_PctNeverDecreases ==
    /\ \A k \in DOMAIN events :
          events[k].type = "progress" => events[k].pct >= 0 /\ events[k].pct <= 990
    /\ \A k \in DOMAIN events :
          (k > 1 /\ events[k].type = "progress") => events[k - 1].pct <= events[k].pct
    /\ \A k \in DOMAIN events : events[k].type = "done" => events[k].pct = 1000

\* ------------------------------------------------- players and aliases

\* Bound on the number of decks of the collection.
MaxPlayerDecks == 2

\* Names of players, as decks, alias requests and lookups spell them.
PlayerNames == {"Jeremy Lb", "J. Lb", "Thomas Le Goff"}

PlayerDeckPool ==
    { Deck(1, "1", "Jeremy Lb",      <<>>, None, <<>>),
      Deck(2, "2", "J. Lb",          <<>>, None, <<>>),
      Deck(3, "2", "Thomas Le Goff", <<>>, None, <<>>),
      Deck(4, "1", "Thomas Le Goff", <<>>, None, <<>>) }

\* _player_aliases[alias] = canonical
AliasesWith(aliases, alias, canonical) ==
    {a \in aliases : a[1] # alias} \cup {<<alias, canonical>>}

\* del _player_aliases[a], when a is a key
AliasesWithout(aliases, alias) == {a \in aliases : a[1] # alias}

\* get_players without date bounds.
get_players(ds, aliases) ==
    IF Len(ds) = 0 THEN <<>> ELSE player_leaderboard(ds, NormalizerOver(aliases))

\* get_player_detail(player_name): 404, or the canonical name with the
\* figures of the first entry of player_leaderboard(decks) over the decks
\* whose player normalises to it.
get_player_detail(ds, aliases, player_name) ==
    LET canonical == _normalize_player(aliases, Strip(player_name))
        player_decks == SelectSeq(ds, LAMBDA d :
                            _normalize_player(aliases,
                                IF d.player = None THEN "" ELSE d.player) = canonical)
    IN  IF Len(player_decks) = 0 THEN [status |-> 404]
        ELSE LET stat == player_leaderboard(player_decks, NoNormalizer)[1]
             IN  [status |-> 200, player |-> canonical, wins |-> stat.wins,
                  top2 |-> stat.top2, top4 |-> stat.top4, top8 |-> stat.top8,
                  points |-> stat.points, deck_count |-> stat.deck_count]

InitPlayers ==
    /\ \E n \in 0..MaxPlayerDecks :
           \E ds \in [1..n -> PlayerDeckPool] :
               /\ \A i, j \in 1..n : ds[i] = ds[j] => i = j
               /\ decks = List(ds)
    /\ _player_aliases = {}
    /\ ignore_lands_cards_file = NoFile
    /\ result = NoResult
    /\ metadata = <<>>
    /\ request = <<>>
    /\ queue = <<>>
    /\ scraper = <<>>
    /\ stream = <<>>
    /\ events = <<>>
    /\ fetch = <<>>

players_rest == <<decks, ignore_lands_cards_file, metadata, request, queue, scraper,
                  stream, events, fetch>>

\* POST /api/player-aliases
AddPlayerAlias(admin, alias, canonical) ==
    /\ IF ~admin
       THEN /\ result' = [op |-> "add_player_alias", status |-> 401]
            /\ UNCHANGED _player_aliases
       ELSE IF Strip(alias) = "" \/ Strip(canonical) = ""
       THEN /\ result' = [op |-> "add_player_alias", status |-> 400]
            /\ UNCHANGED _player_aliases
       ELSE /\ _player_aliases' = AliasesWith(_player_aliases, Strip(alias), Strip(canonical))
            /\ result' = [op |-> "add_player_alias", status |-> 200]
    /\ UNCHANGED players_rest

\* DELETE /api/player-aliases/{alias}
RemovePlayerAlias(admin, alias) ==
    /\ IF ~admin
       THEN /\ result' = [op |-> "remove_player_alias", status |-> 401]
            /\ UNCHANGED _player_aliases
       ELSE /\ _player_aliases' = AliasesWithout(_player_aliases, Strip(alias))
            /\ result' = [op |-> "remove_player_alias", status |-> 200]
    /\ UNCHANGED players_rest

\* GET /api/players
GetPlayers ==
    /\ result' = [op |-> "get_players", players |-> get_players(decks, _player_aliases)]
    /\ UNCHANGED <<_player_aliases, players_rest>>

\* GET /api/players/{player_name}
GetPlayerDetail(player_name) ==
    /\ result' = [op |-> "get_player_detail", player_name |-> player_name,
                  detail |-> get_player_detail(decks, _player_aliases, player_name)]
    /\ UNCHANGED <<_player_aliases, players_rest>>

NextPlayers ==
    \/ \E admin \in BOOLEAN, alias \in PlayerNames \cup {" "}, canonical \in PlayerNames :
          AddPlayerAlias(admin, alias, canonical)
    \/ \E admin \in BOOLEAN, alias \in PlayerNames : RemovePlayerAlias(admin, alias)
    \/ GetPlayers
    \/ \E player_name \in PlayerNames : GetPlayerDetail(player_name)

SpecPlayers == InitPlayers /\ [][NextPlayers]_vars

\* The entries of GET /api/players in the present state.
ListedPlayers == get_players(decks, _player_aliases)

\* C28: after any sequence of alias additions and removals, a name that the
\* leaderboard lists can be looked up, and the detail carries that name with
\* the wins, top2, top4, top8, points and deck_count of its leaderboard
\* entry; resolving a name twice gives what resolving it once gives.
C28_DetailMatchesLeaderboard ==
    /\ result.op = "get_player_detail"
          => \A k \in DOMAIN ListedPlayers :
                ListedPlayers[k].player = result.player_name
                   => /\ result.detail.status = 200
                      /\ result.detail = [status |-> 200,
                                          player |-> ListedPlayers[k].player,
                                          wins |-> ListedPlayers[k].wins,
                                          top2 |-> ListedPlayers[k].top2,
                                          top4 |-> ListedPlayers[k].top4,
                                          top8 |-> ListedPlayers[k].top8,
                                          points |-> ListedPlayers[k].points,
                                          deck_count |-> ListedPlayers[k].deck_count]
    /\ \A name \in PlayerNames :
          _normalize_player(_player_aliases, _normalize_player(_player_aliases, name))
             = _normalize_player(_player_aliases, name)

\* ------------------------------------------- C29: the summary of a report

\* The commander_distribution entries of the report other than
\* "(no commander)".
NamedCommanderEntries ==
    {k \in DOMAIN result.out.commander_distribution :
        result.out.commander_distribution[k].commander # "(no commander)"}

\* C29: in every report of analyze, summary.total_decks is the number of
\* input decks, summary.unique_archetypes the number of entries of
\* archetype_distribution, and summary.unique_commanders the number of
\* entries of commander_distribution other than "(no commander)".
C29_SummaryCounts ==
    IsAnalyze =>
        /\ result.out.summary.total_decks = Len(decks)
        /\ result.out.summary.unique_archetypes = Len(result.out.archetype_distribution)
        /\ result.out.summary.unique_commanders = Cardinality(NamedCommanderEntries)

\* A report over three decks, one without commander and two that share a
\* commander pair listed in two orders: two commander entries, one of them
\* "(no commander)", and summary.unique_commanders = 1.
C29_Witness ==
    /\ IsAnalyze
    /\ Len(decks) = 3
    /\ Len(result.out.commander_distribution) = 2
    /\ result.out.summary.unique_commanders = 1
    /\ \E i, j \in DOMAIN decks : i # j /\ decks[i].commanders # decks[j].commanders
                                    /\ Len(decks[i].commanders) = 2
                                    /\ Len(decks[j].commanders) = 2
    /\ \E k \in DOMAIN result.out.archetype_distribution :
          result.out.archetype_distribution[k].archetype = "(unknown)"

\* ------------------------------------------------------------- _fetch

\* range(3): the number of attempts of _fetch.
Attempts == 3

\* What the server does with a request: a failure (a RequestException from
\* session.get or raise_for_status) or a response with a text.
Failure == [ok |-> FALSE]

Response(text) == [ok |-> TRUE, text |-> text]

Texts == {"<html>a</html>", "<html>b</html>"}

Urls == {"https://www.mtgtop8.com/format?f=EDH", "https://www.mtgtop8.com/event?e=1"}

\* What the server does with the first, second and third request.
ServerScripts == [1..Attempts -> {Failure} \cup {Response(t) : t \in Texts}]

\* A wait of one second, whatever the attempt.
BackoffFlat(attempt) == 1

\* time.sleep(2 ** attempt)
Backoff(attempt) == 2 ^ attempt

\* _fetch(url, session) is called: attempt = 0, no request made yet.
InitFetch ==
    /\ \E url \in Urls, script \in ServerScripts :
          fetch = [pc |-> "request", url |-> url, script |-> List(script), attempt |-> 0,
                   requests |-> <<>>, sleeps |-> <<>>]
    /\ decks = <<>>
    /\ ignore_lands_cards_file = NoFile
    /\ result = NoResult
    /\ metadata = <<>>
    /\ request = <<>>
    /\ _player_aliases = <<>>
    /\ queue = <<>>
    /\ scraper = <<>>
    /\ stream = <<>>
    /\ events = <<>>

fetch_rest == <<decks, ignore_lands_cards_file, metadata, request, _player_aliases, queue,
                scraper, stream, events>>

\* The try block: session.get and raise_for_status; on success the text
\* is returned, on the failure of the last attempt the exception is raised
\* again, on an earlier failure the sleep follows.
FetchRequest ==
    /\ fetch.pc = "request"
    /\ LET response == fetch.script[fetch.attempt + 1]
           made == Append(fetch.requests, fetch.url)
       IN  IF response.ok
           THEN /\ fetch' = [fetch EXCEPT !.pc = "returned", !.requests = made]
                /\ result' = [op |-> "_fetch", raised |-> FALSE, text |-> response.text]
           ELSE IF fetch.attempt = Attempts - 1
           THEN /\ fetch' = [fetch EXCEPT !.pc = "raised", !.requests = made]
                /\ result' = [op |-> "_fetch", raised |-> TRUE]
           ELSE /\ fetch' = [fetch EXCEPT !.pc = "sleep", !.requests = made]
                /\ UNCHANGED result
    /\ UNCHANGED fetch_rest

\* time.sleep(2 ** attempt) and the next round of the loop.
FetchSleep ==
    /\ fetch.pc = "sleep"
    /\ fetch' = [fetch EXCEPT !.pc = "request",
                              !.sleeps = Append(@, Backoff(fetch.attempt)),
                              !.attempt = @ + 1]
    /\ UNCHANGED <<result, fetch_rest>>

NextFetch == FetchRequest \/ FetchSleep

SpecFetch == InitFetch /\ [][NextFetch]_vars

\* session.get returns or raises within its timeout, and sleep returns.
SpecFetchLive == SpecFetch /\ WF_vars(NextFetch)

FetchEnded == fetch.pc \in {"returned", "raised"}

\* The requests of the script that fail before the first that succeeds.
FailuresFirst(script) ==
    IF \E k \in DOMAIN script : script[k].ok
    THEN (CHOOSE k \in DOMAIN script : script[k].ok /\ \A h \in 1..(k - 1) : ~script[h].ok) - 1
    ELSE Len(script)

\* What C30 says of a state of a call: never more than three requests, all
\* to the url; a returned call has made one request more than failed and
\* returns the text of that response; a raised call has made three requests
\* that all failed; the waits so far are 1 second, then 2 seconds.
C30_FetchState ==
    /\ Len(fetch.requests) <= 3
    /\ \A k \in DOMAIN fetch.requests : fetch.requests[k] = fetch.url
    /\ fetch.sleeps \in {<<>>, <<1>>, <<1, 2>>}
    /\ fetch.pc = "returned"
          => /\ Len(fetch.requests) = FailuresFirst(fetch.script) + 1
             /\ result = [op |-> "_fetch", raised |-> FALSE,
                          text |-> fetch.script[Len(fetch.requests)].text]
             /\ Len(fetch.sleeps) = FailuresFirst(fetch.script)
    /\ fetch.pc = "raised"
          => /\ Len(fetch.requests) = 3
             /\ FailuresFirst(fetch.script) = 3
             /\ result = [op |-> "_fetch", raised |-> TRUE]
             /\ fetch.sleeps = <<1, 2>>
    /\ ~FetchEnded => result = NoResult /\ Len(fetch.requests) <= FailuresFirst(fetch.script)

\* C30: _fetch always ends, after at most 3 requests: it returns the text
\* of the first successful response without a further request, waits 1
\* second after the first failure and 2 seconds after the second, and raises
\* after the third failure.
C30_EndsWithinThreeRequests == []C30_FetchState /\ <>FetchEnded

\* A call that failed twice, waited 1 and 2 seconds, and returned the text
\* of the third response.
C30_Witness ==
    /\ fetch.pc = "returned"
    /\ Len(fetch.requests) = 3
    /\ fetch.sleeps = <<1, 2>>
    /\ result.text = "<html>b</html>"

====
